---- MODULE Spec2Model ----
(***************************************************************************)
(* Verification model of the streaming transcription core of               *)
(* arenkis/meeting-minutes (frontend/src-tauri/src/audio).                 *)
(*                                                                         *)
(* Several groups of state are modelled, each with its own specification:    *)
(*   SpecBuffer   - one AdaptiveBuffer driven through its public methods   *)
(*   SpecChannel  - one ManagedChannel with its HealthMonitor, its backing *)
(*                  AdaptiveBuffer and its broadcast receivers             *)
(*   SpecPipeline - the two source tasks of the context manager feeding    *)
(*                  the IntelligentChunker of the shared whisper service   *)
(*   SpecErrorHandler - one ErrorHandler used by two concurrent callers    *)
(*   SpecWhisper  - one StreamingWhisperService driven through             *)
(*                  process_streaming_audio                                *)
(*   SpecManager  - one StreamingTranscriptionContextManager: start() and  *)
(*                  stop() calls that may overlap, the tasks they spawn,   *)
(*                  the shared service and the event bus                   *)
(*   SpecRestart  - the same manager started, stopped and started again    *)
(*   SpecChangeModel - the same manager under change_model() calls         *)
(*   SpecTone, SpecSilence - the pipelines of SpecPipeline fed with one    *)
(*                  continuous tone, and with silence only                 *)
(*   SpecVad      - one StreamingVadProcessor fed with whole frames, and   *)
(*                  reset once                                             *)
(*   SpecAudioStream - one AudioStream, its worker thread and the callers  *)
(*                  of stop()                                              *)
(*   SpecPolicy   - the chunker of SpecPipeline given every report the     *)
(*                  VAD's result type can carry                            *)
(*   SpecBufferLocks - one AdaptiveBuffer and the locks taken by           *)
(*                  concurrent callers of push, pop and metrics()          *)
(*   SpecConcurrentStart - the manager under concurrent calls of start()   *)
(*   SpecChannelRace - one ManagedChannel under close() and                *)
(*                  initiate_recovery() interleaved statement by statement *)
(*   SpecContextRing - the audio context ring of the whisper service in    *)
(*                  its VecDeque storage                                   *)
(***************************************************************************)
EXTENDS Integers, Sequences, FiniteSets, TLC

VARIABLES
    buf,            \* the AdaptiveBuffer under test (SpecBuffer)
    bufLog,         \* history of the calls made on buf and what each returned
    chSender,       \* ManagedChannel.sender: 0 is None, n > 0 is the n-th broadcast sender
    chSenderLock,   \* the Mutex around sender: "free", "held" by a close() in progress, or "stuck" under a send that never returns
    chState,        \* ManagedChannel.state
    chHealth,       \* ManagedChannel.health_monitor
    chBuf,          \* ManagedChannel.buffer
    chReceivers,    \* the broadcast receivers handed out by subscribe()
    chNow,          \* SystemTime::now() in milliseconds
    chLast,         \* the latest call made on the channel and what it returned
    chCloseReturned,\* close() has returned at least once
    chSends,        \* number of send() calls made
    pkChunker,      \* StreamingWhisperService.chunker, shared by both pipeline tasks
    pkNow,          \* Instant::now() in milliseconds
    pkTicks,        \* number of steps the pipeline clock has made
    pkSent,         \* per source, the number of samples its task has received
    pkBatches,      \* number of batches the two tasks have received
    pkEmitted,      \* the chunks handed out by the chunker, in order, with the
                    \* source whose task received them
    ehHandler,      \* the ErrorHandler under test (SpecErrorHandler)
    ehCalls,        \* per caller, its call of handle_error
    ehOverrides,    \* per component, the strategy last given to set_recovery_strategy
    ehHandled,      \* number of handle_error calls made
    svConfig,       \* StreamingWhisperService.config
    svReady,        \* whisper_context and whisper_state are Some
    svService,      \* the service's ContextManager, stats and error_handler
    svLast,         \* what the latest process_streaming_audio call did
    cmActive,       \* StreamingTranscriptionContextManager.is_active
    cmModel,        \* current_model: the name of the model, "" for None
    cmTasks,        \* the tasks spawned so far, in order
    cmStart,        \* the start() call in progress
    cmStop,         \* the stop() call in progress
    cmCalls,        \* number of start() and of stop() calls made
    cmChange,       \* the change_model() call in progress, or the latest one
    cmSeq,          \* sequence_counter
    cmEvents,       \* the events sent on the event bus, in order
    cmQuiet,        \* a stop() has sent StatusUpdate with is_active = false while no
                    \* start() was in progress, and no start() was called since
    cmHeld,         \* the chunker held samples when the latest effective stop() was called
    vdVad,          \* the StreamingVadProcessor under test (SpecVad)
    vdFed,          \* the frames fed to it since construction or the latest reset()
    vdOut,          \* what process_frame reported for each of them
    vdFirst,        \* the frames fed before the latest reset() and the reports on them
    asStream,       \* the AudioStream under test (SpecAudioStream)
    asWorker,       \* its worker thread
    asCalls,        \* per caller, its call of stop()
    asLog,          \* the stop() calls that have returned, in order
    lkBuf,          \* the AdaptiveBuffer shared by concurrent callers (SpecBufferLocks)
    lkData,         \* the RwLock around its data: the caller holding the write guard, or 0
    lkMetrics,      \* the Mutex around its metrics: the caller holding it, or 0
    lkCalls,        \* per caller, the call it is in and where it stands
    lkDone,         \* number of calls that have returned
    csCalls,        \* per caller, its call of start() (SpecConcurrentStart)
    csLog,          \* the start() calls that have returned, in order
    rcCalls,        \* per caller, its close() or initiate_recovery() call in progress
                    \* on the channel (SpecChannelRace)
    rgRing,         \* the audio ContextManager of the whisper service (SpecContextRing)
    rgLast          \* the latest call made on it and what it returned

bufVars == <<buf, bufLog>>

chVars == <<chSender, chSenderLock, chState, chHealth, chBuf, chReceivers, chNow,
            chLast, chCloseReturned, chSends>>

pkVars == <<pkChunker, pkNow, pkTicks, pkSent, pkBatches, pkEmitted>>

ehVars == <<ehHandler, ehCalls, ehOverrides, ehHandled>>

svVars == <<svConfig, svReady, svService, svLast>>

cmVars == <<cmActive, cmModel, cmTasks, cmStart, cmStop, cmCalls, cmChange, cmSeq,
            cmEvents, cmQuiet, cmHeld>>

vdVars == <<vdVad, vdFed, vdOut, vdFirst>>

asVars == <<asStream, asWorker, asCalls, asLog>>

lkVars == <<lkBuf, lkData, lkMetrics, lkCalls, lkDone>>

csVars == <<csCalls, csLog>>

rcVars == <<rcCalls>>

rgVars == <<rgRing, rgLast>>

vars == <<buf, bufLog, chSender, chSenderLock, chState, chHealth, chBuf, chReceivers,
          chNow, chLast, chCloseReturned, chSends,
          pkChunker, pkNow, pkTicks, pkSent, pkBatches, pkEmitted,
          ehHandler, ehCalls, ehOverrides, ehHandled,
          svConfig, svReady, svService, svLast,
          cmActive, cmModel, cmTasks, cmStart, cmStop, cmCalls, cmChange, cmSeq,
          cmEvents, cmQuiet, cmHeld,
          vdVad, vdFed, vdOut, vdFirst, asStream, asWorker, asCalls, asLog,
          lkBuf, lkData, lkMetrics, lkCalls, lkDone, csCalls, csLog, rcCalls,
          rgRing, rgLast>>

----------------------------------------------------------------------------
(* Bounds of the model *)

MaxMinSize == 2         \* min_size ranges over 0..MaxMinSize
MaxMaxSize == 2         \* max_size ranges over min_size..MaxMaxSize
NumItems == 3           \* items pushed are 1..NumItems
MaxBufOps == 5          \* calls made on the buffer in one behaviour

MaxSends == 2           \* send() calls made on the channel in one behaviour
NumChannelItems == 2    \* items sent are 1..NumChannelItems
MaxReceivers == 2       \* receivers handed out by subscribe() in one behaviour
ClockStart == 5000      \* the clock reading when the channel is constructed
TickMs == 1000          \* the clock advances in steps of TickMs
MaxTicks == 3           \* steps of the clock in one behaviour

SampleRate == 10        \* samples per second (scaled down from 16000)
MaxBatchLen == 2        \* a batch received by a pipeline task has 1..MaxBatchLen samples
MaxBatches == 4         \* batches received by the two tasks in one behaviour
MaxPipeTicks == 3       \* steps of the pipeline clock in one behaviour
ShortTickMs == 1000     \* the pipeline clock advances in steps of ShortTickMs ...
LongTickMs == 15000     \* ... or of LongTickMs

MaxHandled == 12        \* handle_error calls made on the handler in one behaviour
MaxMixed == 4           \* the first MaxMixed of them come from any caller for any
                        \* component, the later ones are a burst of one component
InputMaxAttempts == 11  \* max_attempts of the Retry strategy callers install
InputBaseDelayMs == 3   \* base_delay_ms of the Retry strategy callers install

MaxMaxRetries == 4      \* max_retries of a service is 0 or MaxMaxRetries
SlowAttemptMs == 6000   \* the time a slow transcription attempt takes
MaxServiceBatches == 3  \* process_streaming_audio calls made in one behaviour
ServiceBatchLen == 1    \* a batch given to process_streaming_audio has 1..ServiceBatchLen samples

MaxStarts == 1          \* start() calls made on the manager in one session
MaxStops == 1           \* stop() calls made on the manager in one behaviour
MaxManagerBatches == 4  \* batches received by the manager's tasks in one session
MaxManagerTicks == 2    \* steps of the clock while the manager runs one session
MaxRestarts == 2        \* start() calls made on a manager that is restarted
MaxRestartBatches == 2  \* batches received by the tasks of a manager that is restarted
MaxRestartTicks == 1    \* steps of the clock while a manager is restarted
MaxChanges == 2         \* change_model() calls made on the manager in one behaviour

MaxVadFrames == 12      \* frames fed to the VAD before it is reset or left alone
MaxVadBatch == 2        \* a process_stream call is given 1..MaxVadBatch frames
MaxReplayFrames == 5    \* reset() is called after at most MaxReplayFrames frames
LoudEnergy == 70        \* RMS energy of a loud frame, in thousandths

NumStopCallers == 2     \* tasks that call stop() on the capture stream
MaxStopCalls == 3       \* stop() calls made on the capture stream in one behaviour
MaxDeviceErrors == 1    \* device errors reported to the stream's error callback
NumLockCallers == 2     \* tasks that call push, pop or metrics() on one buffer
MaxLockCalls == 3       \* calls made on that buffer in one behaviour
NumStartCallers == 2    \* tasks that call start() on the manager at once
NumRaceCallers == 2     \* tasks that call close() or initiate_recovery() on one channel
MaxRingSamples == 3     \* max_context_samples of the context ring ranges over 2..MaxRingSamples
MaxRingOverlap == 2     \* its overlap_samples ranges over 1..MaxRingOverlap
MaxRingChunk == 2       \* a chunk given to the ring has 1..MaxRingChunk samples
MaxRingCalls == 6       \* calls made on the ring in one behaviour

(* Program constants *)

DefaultInitialCapacity == 1000
ExpansionTestMinSize == 2
ExpansionTestMaxSize == 10
VadFrameMs == 30
PreSpeechPadMs == 100
PostSpeechPadMs == 150
MinPauseDurationMs == 200
PauseSilenceEnergy == 1
EnergyWindow == 10
HighEnergy == 5
ActiveEnergy == 3
MaxAdaptiveThreshold == 10
UnhealthyErrorCount == 3
MaxRecoveryAttempts == 10
MaxBackoffExponent == 10
BackoffUnitMs == 1000
PipelineChannelCapacity == 1000
MinChunkMs == 1000
MaxChunkMs == 30000
TargetChunkMs == 10000
ForceChunkOnSilenceMs == 500
BoundaryConfidenceThreshold == 80
TimeoutConfidence == 40
DeviceMaxAttempts == 3
DeviceBaseDelayMs == 1000
ChannelMaxAttempts == 5
ChannelBaseDelayMs == 500
TranscriptionMaxAttempts == 2
TranscriptionBaseDelayMs == 2000
MaxErrorHistory == 1000
MaxDelayExponent == 10
MaxTextSegments == 10
RetrySleepMs == 100
ManagerMaxRetries == 3
BaseTemperature == 0
TemperatureIncrement == 20
MaxTemperature == 100
ChunkTimeoutMs == 10000
MaxContextDurationS == 300

----------------------------------------------------------------------------
(* Helpers *)

Max2(a, b) == IF a >= b THEN a ELSE b

Min2(a, b) == IF a <= b THEN a ELSE b

\* a load factor is the rational num/den (an f32 in the source)
Ratio(n, d) == [num |-> n, den |-> d]

\* lf > n/100
RatioAbove(lf, n) == lf.num * 100 > n * lf.den

\* lf < n/100
RatioBelow(lf, n) == lf.num * 100 < n * lf.den

----------------------------------------------------------------------------
(* AdaptiveBuffer (audio/buffer.rs) *)

OverflowStrategy == {"DropOldest", "Backpressure", "Expand"}

BufferMetricsNew ==
    [current_size |-> 0, max_size_reached |-> 0, total_writes |-> 0,
     total_overflow_events |-> 0, resize_count |-> 0]

LoadTrackerNew == [write_count |-> 0, read_count |-> 0]

\* data_lock is the tokio RwLock around data: "free", "held" by the call in
\* progress, or "stuck" once a call waits for it while holding it itself.
AdaptiveBufferNew(min_size, max_size) ==
    [min_size |-> min_size,
     max_size |-> max_size,
     current_capacity |-> Max2(min_size, DefaultInitialCapacity),
     data |-> << >>,
     data_lock |-> "free",
     overflow_strategy |-> "DropOldest",
     metrics |-> BufferMetricsNew,
     load_tracker |-> LoadTrackerNew,
     auto_resize |-> TRUE]

WithOverflowStrategy(min_size, max_size, strategy) ==
    [AdaptiveBufferNew(min_size, max_size) EXCEPT !.overflow_strategy = strategy]

CurrentLoad(b) ==
    LET writes == b.load_tracker.write_count
        reads == b.load_tracker.read_count
    IN IF reads = 0 /\ writes = 0 THEN Ratio(0, 1) ELSE Ratio(writes, writes + reads)

\* Each operation below yields [buf |-> the buffer afterwards, res |-> what the
\* call returned, value |-> the item returned (0 when none)]; res = "Hang"
\* when the call never returns.
Outcome(b, r) == [buf |-> b, res |-> r, value |-> 0]

ResizeBuffer(b, new_capacity) ==
    IF b.data_lock # "free"
    THEN Outcome([b EXCEPT !.data_lock = "stuck"], "Hang")
    ELSE IF new_capacity < Len(b.data)
    THEN Outcome(b, "CapacityTooSmall")
    ELSE Outcome([b EXCEPT !.current_capacity = new_capacity,
                           !.metrics.resize_count = @ + 1], "Ok")

AdjustCapacity(b, load_factor) ==
    LET current_capacity == b.current_capacity
        new_capacity ==
            IF RatioAbove(load_factor, 80)
            THEN Min2((current_capacity * 3) \div 2, b.max_size)
            ELSE IF RatioBelow(load_factor, 30)
            THEN Max2((current_capacity * 3) \div 4, b.min_size)
            ELSE current_capacity
    IN IF new_capacity # current_capacity
       THEN LET r == ResizeBuffer(b, new_capacity)
            IN Outcome(r.buf, IF r.res = "Hang" THEN "Hang" ELSE "Ok")
       ELSE Outcome(b, "Ok")

CheckAndAdjustCapacity(b) ==
    LET load_factor == CurrentLoad(b)
    IN IF RatioAbove(load_factor, 85) \/ RatioBelow(load_factor, 25)
       THEN AdjustCapacity(b, load_factor)
       ELSE Outcome(b, "Ok")

\* the tail of push and pop: record the operation, auto-resize, release the lock
FinishOp(b, result) ==
    LET r == IF b.auto_resize THEN CheckAndAdjustCapacity(b) ELSE Outcome(b, "Ok")
    IN IF r.res = "Hang"
       THEN r
       ELSE Outcome([r.buf EXCEPT !.data_lock = "free"], result)

FinishPop(b, item) ==
    LET r == FinishOp(b, IF item = 0 THEN "None" ELSE "Some")
    IN IF r.res = "Hang" THEN r ELSE [r EXCEPT !.value = item]

Push(b, item) ==
    LET b1 == [b EXCEPT !.data_lock = "held",
                        !.metrics.total_writes = @ + 1,
                        !.metrics.current_size = Len(b.data),
                        !.metrics.max_size_reached = Max2(@, Len(b.data))]
        current_capacity == b.current_capacity
        full == Len(b.data) >= current_capacity
        dropped == [b1 EXCEPT !.data = IF b.data = << >> THEN << >> ELSE Tail(b.data)]
        counted == IF b.data = << >> THEN dropped
                   ELSE [dropped EXCEPT !.metrics.total_overflow_events = @ + 1]
        store(bb) == [bb EXCEPT !.data = Append(@, item),
                                !.load_tracker.write_count = @ + 1]
    IN IF ~full
       THEN FinishOp(store(b1), "Ok")
       ELSE CASE b.overflow_strategy = "DropOldest" -> FinishOp(store(counted), "Ok")
              [] b.overflow_strategy = "Backpressure" ->
                    Outcome([b1 EXCEPT !.data_lock = "free"], "BufferFull")
              [] b.overflow_strategy = "Expand" ->
                    IF current_capacity < b.max_size
                    THEN LET r == ResizeBuffer(b1, Min2(current_capacity * 2, b.max_size))
                         IN CASE r.res = "Hang" -> r
                              [] r.res = "CapacityTooSmall" ->
                                    Outcome([r.buf EXCEPT !.data_lock = "free"], r.res)
                              [] OTHER -> FinishOp(store(r.buf), "Ok")
                    ELSE FinishOp(store(dropped), "Ok")

Pop(b) ==
    LET b1 == [b EXCEPT !.data_lock = "held"]
        item == IF b.data # << >> THEN Head(b.data) ELSE 0
        b2 == [b1 EXCEPT !.data = IF b.data # << >> THEN Tail(b.data) ELSE << >>,
                         !.load_tracker.read_count = @ + 1]
    IN FinishPop(b2, item)

Clear(b) ==
    Outcome([b EXCEPT !.data = << >>, !.current_capacity = b.min_size], "Ok")

----------------------------------------------------------------------------
(* SpecBuffer: one AdaptiveBuffer and its callers *)

Items == 1..NumItems

ChannelItems == 1..NumChannelItems

\* capacities a ManagedChannel is constructed with: 1000 by the capture stream
\* and the context manager, 100 by the tests, and 500 for a backing buffer
\* whose initial capacity already is its max_size
ChannelCapacities == {100, 500, 1000}


\* load factors passed to adjust_capacity by its callers, in percent
LoadPercents == {10, 50, 90}

LogEntry(op, arg, r) == [op |-> op, arg |-> arg, res |-> r.res, value |-> r.value]

\* the buffers built: every small one, and the one of test_buffer_expansion
BufferInputs ==
    {WithOverflowStrategy(min_size, max_size, strategy) :
        min_size \in 0..MaxMinSize, max_size \in 0..MaxMaxSize,
        strategy \in OverflowStrategy}
    \cup {WithOverflowStrategy(ExpansionTestMinSize, ExpansionTestMaxSize, "Expand")}

BufInit ==
    /\ buf \in {b \in BufferInputs : b.min_size <= b.max_size}
    /\ bufLog = << >>

\* a call can start only while no earlier call is stuck holding the data lock
BufCallable == buf.data_lock = "free" /\ Len(bufLog) < MaxBufOps

BufPush(item) ==
    /\ BufCallable
    /\ UNCHANGED <<chVars, pkVars, ehVars, svVars, cmVars, vdVars, asVars,
                 lkVars, csVars, rcVars, rgVars>>
    /\ LET r == Push(buf, item)
       IN /\ buf' = r.buf
          /\ bufLog' = Append(bufLog, LogEntry("push", item, r))

BufPop ==
    /\ BufCallable
    /\ UNCHANGED <<chVars, pkVars, ehVars, svVars, cmVars, vdVars, asVars,
                 lkVars, csVars, rcVars, rgVars>>
    /\ LET r == Pop(buf)
       IN /\ buf' = r.buf
          /\ bufLog' = Append(bufLog, LogEntry("pop", 0, r))

BufClear ==
    /\ BufCallable
    /\ UNCHANGED <<chVars, pkVars, ehVars, svVars, cmVars, vdVars, asVars,
                 lkVars, csVars, rcVars, rgVars>>
    /\ LET r == Clear(buf)
       IN /\ buf' = r.buf
          /\ bufLog' = Append(bufLog, LogEntry("clear", 0, r))

BufAdjustCapacity(percent) ==
    /\ BufCallable
    /\ UNCHANGED <<chVars, pkVars, ehVars, svVars, cmVars, vdVars, asVars,
                 lkVars, csVars, rcVars, rgVars>>
    /\ LET r == AdjustCapacity(buf, Ratio(percent, 100))
       IN /\ buf' = r.buf
          /\ bufLog' = Append(bufLog, LogEntry("adjust_capacity", percent, r))

BufNext ==
    \/ \E item \in Items : BufPush(item)
    \/ BufPop
    \/ BufClear
    \/ \E percent \in LoadPercents : BufAdjustCapacity(percent)

----------------------------------------------------------------------------
(* ManagedChannel and HealthMonitor (audio/channel.rs) *)

ChannelState == {"Active", "Recovering", "Failed", "Closed", "Initializing"}

HealthMonitorNew(now) ==
    [last_activity |-> now, error_count |-> 0, recovery_attempts |-> 0,
     last_recovery_attempt |-> 0, is_healthy |-> TRUE]

RecordActivity(h, now) ==
    [h EXCEPT !.last_activity = now, !.is_healthy = TRUE, !.error_count = 0]

RecordError(h) ==
    [h EXCEPT !.error_count = @ + 1,
              !.is_healthy = IF h.error_count + 1 >= UnhealthyErrorCount THEN FALSE ELSE @]

RecordRecoveryAttempt(h, now) ==
    [h EXCEPT !.recovery_attempts = @ + 1, !.last_recovery_attempt = now]

BackoffDuration(attempts) == (2 ^ Min2(attempts, MaxBackoffExponent)) * BackoffUnitMs

ShouldAttemptRecovery(h, now) ==
    IF h.recovery_attempts > MaxRecoveryAttempts
    THEN FALSE
    ELSE (now - h.last_recovery_attempt) > BackoffDuration(h.recovery_attempts)

\* ManagedChannel::new: the backing buffer of a channel of the given capacity
ChannelBufferNew(capacity) == WithOverflowStrategy(capacity, capacity * 2, "DropOldest")

\* a broadcast receiver: the sender it belongs to, the items waiting in it, the
\* items its owner has taken out, whether it has been dropped; and, for the
\* claims, what the backing buffer held when it subscribed and whether its
\* owner has since found it empty.
ReceiverNew(sender, buffered) ==
    [sender |-> sender, queue |-> << >>, got |-> << >>, alive |-> TRUE,
     buffered_at_subscribe |-> buffered, drained |-> FALSE]

\* broadcast::Sender::receiver_count() > 0
HasReceivers(sender) ==
    \E i \in 1..Len(chReceivers) : chReceivers[i].alive /\ chReceivers[i].sender = sender

\* broadcast::Sender::send: every live receiver of this sender gets the item
Broadcast(sender, item) ==
    [i \in 1..Len(chReceivers) |->
        IF chReceivers[i].alive /\ chReceivers[i].sender = sender
        THEN [chReceivers[i] EXCEPT !.queue = Append(@, item)]
        ELSE chReceivers[i]]

Call(op, arg, res) == [op |-> op, arg |-> arg, res |-> res]

ChInit ==
    /\ \E capacity \in ChannelCapacities : chBuf = ChannelBufferNew(capacity)
    /\ chSender = 1
    /\ chSenderLock = "free"
    /\ chState = "Initializing"
    /\ chNow = ClockStart
    /\ chHealth = HealthMonitorNew(ClockStart)
    /\ chReceivers = << >>
    /\ chLast = Call("new", 0, "Ok")
    /\ chCloseReturned = FALSE
    /\ chSends = 0

ChSend(item) ==
    /\ chSenderLock = "free"
    /\ chSends < MaxSends
    /\ chSends' = chSends + 1
    /\ IF chSender = 0
       THEN /\ chLast' = Call("send", item, "Err")
            /\ UNCHANGED <<chState, chHealth, chBuf, chReceivers, chSenderLock>>
       ELSE IF HasReceivers(chSender)
       THEN /\ chReceivers' = Broadcast(chSender, item)
            /\ chHealth' = RecordActivity(chHealth, chNow)
            /\ chState' = "Active"
            /\ chLast' = Call("send", item, "Ok")
            /\ UNCHANGED <<chBuf, chSenderLock>>
       ELSE LET r == Push(chBuf, item)
            IN /\ chBuf' = r.buf
               /\ chSenderLock' = IF r.res = "Hang" THEN "stuck" ELSE "free"
               /\ chLast' = Call("send", item,
                                 CASE r.res = "Hang" -> "Hang"
                                   [] r.res = "Ok" -> "Ok"
                                   [] OTHER -> "Err")
               /\ UNCHANGED <<chState, chHealth, chReceivers>>
    /\ UNCHANGED <<chSender, chNow, chCloseReturned>>
    /\ UNCHANGED <<bufVars, pkVars, ehVars, svVars, cmVars, vdVars, asVars,
                 lkVars, csVars, rcVars, rgVars>>

ChSubscribe ==
    /\ chSenderLock = "free"
    /\ Len(chReceivers) < MaxReceivers
    /\ IF chSender = 0
       THEN /\ chLast' = Call("subscribe", 0, "Err")
            /\ UNCHANGED chReceivers
       ELSE /\ chReceivers' = Append(chReceivers, ReceiverNew(chSender, chBuf.data))
            /\ chLast' = Call("subscribe", 0, "Ok")
    /\ UNCHANGED <<chSender, chSenderLock, chState, chHealth, chBuf, chNow,
                   chCloseReturned, chSends>>
    /\ UNCHANGED <<bufVars, pkVars, ehVars, svVars, cmVars, vdVars, asVars,
                 lkVars, csVars, rcVars, rgVars>>

\* the owner of receiver i takes the next item out of it, or finds it empty
ChRecv(i) ==
    /\ chReceivers[i].alive
    /\ IF chReceivers[i].queue # << >>
       THEN chReceivers' = [chReceivers EXCEPT ![i].got = Append(@, Head(chReceivers[i].queue)),
                                               ![i].queue = Tail(@)]
       ELSE /\ ~chReceivers[i].drained
            /\ chReceivers' = [chReceivers EXCEPT ![i].drained = TRUE]
    /\ UNCHANGED <<chSender, chSenderLock, chState, chHealth, chBuf, chNow, chLast,
                   chCloseReturned, chSends>>
    /\ UNCHANGED <<bufVars, pkVars, ehVars, svVars, cmVars, vdVars, asVars,
                 lkVars, csVars, rcVars, rgVars>>

\* the owner of receiver i drops it
ChDropReceiver(i) ==
    /\ chReceivers[i].alive
    /\ chReceivers' = [chReceivers EXCEPT ![i].alive = FALSE, ![i].queue = << >>]
    /\ UNCHANGED <<chSender, chSenderLock, chState, chHealth, chBuf, chNow, chLast,
                   chCloseReturned, chSends>>
    /\ UNCHANGED <<bufVars, pkVars, ehVars, svVars, cmVars, vdVars, asVars,
                 lkVars, csVars, rcVars, rgVars>>

ChClose ==
    /\ chSenderLock = "free"
    /\ chSender' = 0
    /\ chState' = "Closed"
    /\ chLast' = Call("close", 0, "Ok")
    /\ chCloseReturned' = TRUE
    /\ UNCHANGED <<chSenderLock, chHealth, chBuf, chReceivers, chNow, chSends>>
    /\ UNCHANGED <<bufVars, pkVars, ehVars, svVars, cmVars, vdVars, asVars,
                 lkVars, csVars, rcVars, rgVars>>

ChInitiateRecovery ==
    /\ chLast # Call("initiate_recovery", 0, "Err")
    /\ IF ~ShouldAttemptRecovery(chHealth, chNow)
       THEN /\ chLast' = Call("initiate_recovery", 0, "Err")
            /\ UNCHANGED <<chSender, chState, chHealth>>
       ELSE /\ chHealth' = RecordRecoveryAttempt(chHealth, chNow)
            /\ IF chSenderLock = "free"
               THEN /\ chSender' = chHealth.recovery_attempts + 2
                    /\ chState' = "Active"
                    /\ chLast' = Call("initiate_recovery", 0, "Ok")
               ELSE /\ chState' = "Recovering"
                    /\ chLast' = Call("initiate_recovery", 0, "Hang")
                    /\ UNCHANGED chSender
    /\ UNCHANGED <<chSenderLock, chBuf, chReceivers, chNow, chCloseReturned, chSends>>
    /\ UNCHANGED <<bufVars, pkVars, ehVars, svVars, cmVars, vdVars, asVars,
                 lkVars, csVars, rcVars, rgVars>>

\* time passes: TickMs milliseconds
ChTick ==
    /\ chNow + TickMs <= ClockStart + MaxTicks * TickMs
    /\ chNow' = chNow + TickMs
    /\ UNCHANGED <<chSender, chSenderLock, chState, chHealth, chBuf, chReceivers,
                   chLast, chCloseReturned, chSends>>
    /\ UNCHANGED <<bufVars, pkVars, ehVars, svVars, cmVars, vdVars, asVars,
                 lkVars, csVars, rcVars, rgVars>>

ChNext ==
    \/ \E item \in ChannelItems : ChSend(item)
    \/ ChSubscribe
    \/ \E i \in 1..Len(chReceivers) : ChRecv(i)
    \/ \E i \in 1..Len(chReceivers) : ChDropReceiver(i)
    \/ ChClose
    \/ ChInitiateRecovery
    \/ ChTick

----------------------------------------------------------------------------
(* IntelligentChunker (audio/intelligent_chunking.rs) as configured by
   StreamingWhisperService::new, and the two pipeline tasks of
   StreamingContextManager that share it (audio/context_manager.rs) *)

Sources == {"microphone", "speaker"}

\* a sample is identified by its source and its position in that source's stream
Sample(src, n) == [src |-> src, n |-> n]

\* Option<Instant>
NoInstant == [some |-> FALSE, at |-> 0]

SomeInstant(t) == [some |-> TRUE, at |-> t]

\* context_manager.rs: context_overlap_samples = sample_rate / 10
ContextOverlapSamples == SampleRate \div 10

\* streaming_whisper.rs: overlap_duration_ms
OverlapDurationMs == (ContextOverlapSamples * 1000) \div SampleRate

\* ContextBuffer::new
MaxContextSamples == (MaxChunkMs * SampleRate) \div 1000

OverlapSamples == (OverlapDurationMs * SampleRate) \div 1000

\* the last n elements of s (all of s when it is shorter)
LastN(s, n) == SubSeq(s, Max2(Len(s) - n, 0) + 1, Len(s))

\* ContextBuffer::add_samples
AddSamples(ring, new_samples) == LastN(ring \o new_samples, MaxContextSamples)

\* ContextBuffer::get_context_for_new_chunk
GetContextForNewChunk(ring) == LastN(ring, Min2(OverlapSamples, Len(ring)))

\* IntelligentChunker::new
IntelligentChunkerNew ==
    [current_chunk |-> << >>, chunk_start_time |-> NoInstant,
     silence_start_time |-> NoInstant, chunk_id_counter |-> 0,
     context_buffer |-> << >>]

\* what StreamingVadProcessor::process_stream can report for one piece of
\* audio, as far as the chunker reads it: energy_low for energy_level <
\* silence_threshold, has_pause for a non-empty sentence_boundaries, and the
\* confidence in percent, which is 0 when the call completed no frame and
\* from 50 to 100 otherwise (50 stands for all of these: the chunker compares
\* it with 40, and with 80 only under is_complete_utterance). A call that
\* completes no frame reports energy 0 and no boundary. A pause needs seven
\* quiet frames in a row, after which the energy tracker is not active
\* (is_complete_utterance is false) and the speech state machine has left
\* the speaking state.
VadResults ==
    {r \in [is_speaking : BOOLEAN, energy_low : BOOLEAN, has_pause : BOOLEAN,
            is_complete_utterance : {FALSE}, confidence : {0, 50}] :
        /\ r.confidence = 0 => (r.energy_low /\ ~r.has_pause)
        /\ r.has_pause => ~r.is_speaking}

\* IntelligentChunker::get_current_chunk_duration_ms
GetCurrentChunkDurationMs(ck, now) ==
    IF ck.chunk_start_time.some THEN now - ck.chunk_start_time.at ELSE 0

\* IntelligentChunker::update_silence_tracking
UpdateSilenceTracking(ck, vad, now) ==
    LET is_silent == vad.energy_low /\ ~vad.is_speaking
    IN IF is_silent /\ ~ck.silence_start_time.some
       THEN [ck EXCEPT !.silence_start_time = SomeInstant(now)]
       ELSE IF ~is_silent
       THEN [ck EXCEPT !.silence_start_time = NoInstant]
       ELSE ck

\* should_create_chunk with the target-duration check ahead of the pause check
ShouldCreateChunkTargetFirst(ck, vad, now) ==
    LET current_duration == GetCurrentChunkDurationMs(ck, now)
    IN IF current_duration >= MaxChunkMs THEN "MaxDurationBoundary"
       ELSE IF current_duration < MinChunkMs THEN "Continue"
       ELSE IF vad.is_complete_utterance /\ vad.confidence >= BoundaryConfidenceThreshold
       THEN "SentenceBoundary"
       ELSE IF /\ ck.silence_start_time.some
               /\ now - ck.silence_start_time.at >= ForceChunkOnSilenceMs
       THEN "SilenceBoundary"
       ELSE IF /\ current_duration >= TargetChunkMs
               /\ (vad.confidence > TimeoutConfidence \/ ~vad.is_speaking)
       THEN "TimeoutBoundary"
       ELSE IF vad.has_pause /\ current_duration >= (TargetChunkMs * 2) \div 3
       THEN "PauseBoundary"
       ELSE "Continue"

\* IntelligentChunker::should_create_chunk: the boundary type, or "Continue"
ShouldCreateChunk(ck, vad, now) ==
    LET current_duration == GetCurrentChunkDurationMs(ck, now)
    IN IF current_duration >= MaxChunkMs THEN "MaxDurationBoundary"
       ELSE IF current_duration < MinChunkMs THEN "Continue"
       ELSE IF vad.is_complete_utterance /\ vad.confidence >= BoundaryConfidenceThreshold
       THEN "SentenceBoundary"
       ELSE IF /\ ck.silence_start_time.some
               /\ now - ck.silence_start_time.at >= ForceChunkOnSilenceMs
       THEN "SilenceBoundary"
       ELSE IF vad.has_pause /\ current_duration >= (TargetChunkMs * 2) \div 3
       THEN "PauseBoundary"
       ELSE IF /\ current_duration >= TargetChunkMs
               /\ (vad.confidence > TimeoutConfidence \/ ~vad.is_speaking)
       THEN "TimeoutBoundary"
       ELSE "Continue"

\* IntelligentChunker::reset_chunk_state
ResetChunkState(ck) ==
    [ck EXCEPT !.current_chunk = << >>, !.chunk_start_time = NoInstant,
               !.silence_start_time = NoInstant]

\* IntelligentChunker::create_chunk (context_preservation_enabled = true):
\* the chunker afterwards and the chunks handed out (none or one)
CreateChunk(ck, boundary_type, now) ==
    IF ck.current_chunk = << >>
    THEN [chunker |-> ck, chunks |-> << >>]
    ELSE LET chunk == [chunk_id |-> ck.chunk_id_counter,
                       duration_ms |-> GetCurrentChunkDurationMs(ck, now),
                       samples |-> GetContextForNewChunk(ck.context_buffer)
                                      \o ck.current_chunk,
                       new_samples |-> Len(ck.current_chunk),
                       boundary_type |-> boundary_type]
             after == [ck EXCEPT !.chunk_id_counter = @ + 1,
                                 !.context_buffer = AddSamples(@, ck.current_chunk)]
         IN [chunker |-> ResetChunkState(after), chunks |-> <<chunk>>]

\* IntelligentChunker::process_audio on a non-empty slice (the VAD never fails)
ProcessAudio(ck, samples, vad, now) ==
    LET extended == [ck EXCEPT !.current_chunk = @ \o samples,
                               !.chunk_start_time =
                                   IF @.some THEN @ ELSE SomeInstant(now)]
        tracked == UpdateSilenceTracking(extended, vad, now)
        decision == ShouldCreateChunk(tracked, vad, now)
    IN IF decision = "Continue"
       THEN [chunker |-> tracked, chunks |-> << >>]
       ELSE CreateChunk(tracked, decision, now)

\* IntelligentChunker::process_stream: the batch goes through process_audio in
\* pieces of sample_rate / 10 samples; vads[i] is the VAD's report on piece i
RECURSIVE ProcessStream(_, _, _, _)
ProcessStream(ck, samples, vads, now) ==
    IF samples = << >>
    THEN [chunker |-> ck, chunks |-> << >>]
    ELSE LET chunk_size == SampleRate \div 10
             chunk_end == Min2(chunk_size, Len(samples))
             first == ProcessAudio(ck, SubSeq(samples, 1, chunk_end), Head(vads), now)
             rest == ProcessStream(first.chunker,
                                   SubSeq(samples, chunk_end + 1, Len(samples)),
                                   Tail(vads), now)
         IN [chunker |-> rest.chunker, chunks |-> first.chunks \o rest.chunks]

\* number of pieces process_stream cuts a batch of n samples into
Pieces(n) == (n + (SampleRate \div 10) - 1) \div (SampleRate \div 10)

PipeTickSteps == {ShortTickMs, LongTickMs}

PipeInit ==
    /\ pkChunker = IntelligentChunkerNew
    /\ pkNow = 0
    /\ pkTicks = 0
    /\ pkSent = [src \in Sources |-> 0]
    /\ pkBatches = 0
    /\ pkEmitted = << >>

\* one turn of the loop of process_audio_stream in the task of source src: it
\* receives a batch of n samples and runs process_streaming_audio on it, which
\* holds the chunker's mutex over the whole of process_stream
ProcessAudioStream(src, n, vads) ==
    /\ pkBatches < MaxBatches
    /\ LET samples == [i \in 1..n |-> Sample(src, pkSent[src] + i)]
           r == ProcessStream(pkChunker, samples, vads, pkNow)
       IN /\ pkChunker' = r.chunker
          /\ pkEmitted' = pkEmitted \o
                 [i \in 1..Len(r.chunks) |->
                     [source |-> src, chunk |-> r.chunks[i]]]
    /\ pkSent' = [pkSent EXCEPT ![src] = @ + n]
    /\ pkBatches' = pkBatches + 1
    /\ UNCHANGED <<pkNow, pkTicks>>
    /\ UNCHANGED <<bufVars, chVars, ehVars, svVars, cmVars, vdVars, asVars,
                 lkVars, csVars, rcVars, rgVars>>

\* time passes
PipeTick(ms) ==
    /\ pkTicks < MaxPipeTicks
    /\ pkTicks' = pkTicks + 1
    /\ pkNow' = pkNow + ms
    /\ UNCHANGED <<pkChunker, pkSent, pkBatches, pkEmitted>>
    /\ UNCHANGED <<bufVars, chVars, ehVars, svVars, cmVars, vdVars, asVars,
                 lkVars, csVars, rcVars, rgVars>>

PipeNext ==
    \/ \E src \in Sources : \E n \in 1..MaxBatchLen :
          \E vads \in [1..Pieces(n) -> VadResults] : ProcessAudioStream(src, n, vads)
    \/ \E ms \in PipeTickSteps : PipeTick(ms)

\* every report a StreamingResult can carry to should_create_chunk, whether
\* or not the VAD comes to produce it
PolicyInputs ==
    [is_speaking : BOOLEAN, energy_low : BOOLEAN, has_pause : BOOLEAN,
     is_complete_utterance : BOOLEAN, confidence : {0, 50, 80, 100}]

\* the chunker given batches of one piece with any report
PipePolicyNext ==
    \/ \E src \in Sources : \E vads \in [1..1 -> PolicyInputs] :
          ProcessAudioStream(src, 1, vads)
    \/ \E ms \in PipeTickSteps : PipeTick(ms)

\* what the VAD reports on a piece of a loud continuous tone: every frame has
\* energy above the threshold and a speech activity ratio of 1, so the state
\* machine is speaking from the first frame on, no pause is seen, and the
\* confidence is the base 0.5 or more
ToneResults ==
    {r \in VadResults : r.is_speaking /\ ~r.energy_low /\ ~r.has_pause}

\* what the VAD reports on a piece of silence (all samples 0.0): energy 0, the
\* state machine never speaking, a pause once 200 ms of frames were silent
SilenceResults ==
    {r \in VadResults : ~r.is_speaking /\ r.energy_low}

\* a pipeline task receives a batch cut from a continuous tone
PipeFeedTone(src, n, vads) ==
    /\ \A i \in 1..Pieces(n) : vads[i] \in ToneResults
    /\ ProcessAudioStream(src, n, vads)

\* a pipeline task receives a batch of silence
PipeFeedSilence(src, n, vads) ==
    /\ \A i \in 1..Pieces(n) : vads[i] \in SilenceResults
    /\ ProcessAudioStream(src, n, vads)

PipeToneNext ==
    \/ \E src \in Sources : \E n \in 1..MaxBatchLen :
          \E vads \in [1..Pieces(n) -> ToneResults] : PipeFeedTone(src, n, vads)
    \/ \E ms \in PipeTickSteps : PipeTick(ms)

PipeSilenceNext ==
    \/ \E src \in Sources : \E n \in 1..MaxBatchLen :
          \E vads \in [1..Pieces(n) -> SilenceResults] : PipeFeedSilence(src, n, vads)
    \/ \E ms \in PipeTickSteps : PipeTick(ms)

----------------------------------------------------------------------------
(* ErrorHandler (error.rs) *)

\* the component names an error context may carry
ComponentNames ==
    {"device", "channel", "buffer", "vad", "transcription",
     "audio_stream", "test", "test_component", "streaming_whisper", "context_manager"}

\* the variants of AudioError the model tells apart
ErrorKinds == {"Device", "Channel"}

\* the errors the callers hand to handle_error: the variant and the component
\* name of the context (those of a device, of test_error_handler_basic, of
\* test_error_handling_and_recovery and of test_error_count_tracking)
ErrorInputs ==
    {[kind |-> "Device", component |-> "device"],
     [kind |-> "Device", component |-> "audio_stream"],
     [kind |-> "Channel", component |-> "test"],
     [kind |-> "Channel", component |-> "test_component"]}

\* ErrorRecoveryStrategy; the fields a variant does not have are 0 / FALSE
Strategy(kind, max_attempts, base_delay_ms, fallback_enabled) ==
    [kind |-> kind, max_attempts |-> max_attempts, base_delay_ms |-> base_delay_ms,
     fallback_enabled |-> fallback_enabled]

RetryStrategy(max_attempts, base_delay_ms) ==
    Strategy("Retry", max_attempts, base_delay_ms, FALSE)

GracefulStrategy(fallback_enabled) == Strategy("Graceful", 0, 0, fallback_enabled)

StopStrategy == Strategy("Stop", 0, 0, FALSE)

RestartStrategy == Strategy("Restart", 0, 0, FALSE)

EscalateStrategy == Strategy("Escalate", 0, 0, FALSE)

\* a component name without an entry in recovery_strategies
NoStrategy == Strategy("None", 0, 0, FALSE)

\* ErrorRecoveryAction; the fields a variant does not have are 0 / FALSE
RecoveryAction(kind, delay_ms, attempt, with_degradation, fallback_enabled) ==
    [kind |-> kind, delay_ms |-> delay_ms, attempt |-> attempt,
     with_degradation |-> with_degradation, fallback_enabled |-> fallback_enabled]

NoAction == RecoveryAction("None", 0, 0, FALSE, FALSE)

\* 2_u64.pow(n)
RECURSIVE Pow2(_)
Pow2(n) == IF n = 0 THEN 1 ELSE 2 * Pow2(n - 1)

\* ErrorHandler::new: error_counts is empty (a missing entry reads as 0),
\* error_history is kept by its length, no callback is registered
ErrorHandlerNew ==
    [error_counts |-> [c \in ComponentNames |-> 0],
     recovery_strategies |->
         [c \in ComponentNames |->
             CASE c = "device" -> RetryStrategy(DeviceMaxAttempts, DeviceBaseDelayMs)
               [] c = "channel" -> RetryStrategy(ChannelMaxAttempts, ChannelBaseDelayMs)
               [] c = "buffer" -> GracefulStrategy(TRUE)
               [] c = "vad" -> GracefulStrategy(TRUE)
               [] c = "transcription" ->
                      RetryStrategy(TranscriptionMaxAttempts, TranscriptionBaseDelayMs)
               [] OTHER -> NoStrategy],
     error_history |-> 0]

\* ErrorHandler::store_error_history
StoreErrorHistory(h) ==
    [h EXCEPT !.error_history = Min2(@ + 1, MaxErrorHistory)]

\* ErrorHandler::increment_error_count (an AtomicU32, far from wrapping here)
IncrementErrorCount(h, component) ==
    [h EXCEPT !.error_counts[component] = @ + 1]

\* ErrorHandler::get_error_count
GetErrorCount(h, component) == h.error_counts[component]

\* a variant of get_recovery_strategy that ignores the registered strategies
GetRecoveryStrategyUnregistered(h, component) == GracefulStrategy(FALSE)

\* ErrorHandler::get_recovery_strategy
GetRecoveryStrategy(h, component) ==
    IF h.recovery_strategies[component] = NoStrategy
    THEN GracefulStrategy(FALSE)
    ELSE h.recovery_strategies[component]

\* a variant of execute_recovery whose Retry ends one error earlier
ExecuteRecoveryStrict(h, component, strategy) ==
    CASE strategy.kind = "Retry" ->
           LET error_count == h.error_counts[component]
           IN IF error_count < strategy.max_attempts
              THEN RecoveryAction("Retry",
                       strategy.base_delay_ms
                           * Pow2(Min2(error_count, MaxDelayExponent)),
                       error_count, FALSE, FALSE)
              ELSE RecoveryAction("Escalate", 0, 0, FALSE, FALSE)
      [] strategy.kind = "Graceful" ->
           RecoveryAction("Continue", 0, 0, TRUE, strategy.fallback_enabled)
      [] strategy.kind = "Stop" -> RecoveryAction("Stop", 0, 0, FALSE, FALSE)
      [] strategy.kind = "Restart" -> RecoveryAction("Restart", 0, 0, FALSE, FALSE)
      [] OTHER -> RecoveryAction("Escalate", 0, 0, FALSE, FALSE)

\* ErrorHandler::execute_recovery (the u64 product is far from wrapping here)
ExecuteRecovery(h, component, strategy) ==
    CASE strategy.kind = "Retry" ->
           LET error_count == GetErrorCount(h, component)
           IN IF error_count <= strategy.max_attempts
              THEN RecoveryAction("Retry",
                       strategy.base_delay_ms
                           * Pow2(Min2(error_count, MaxDelayExponent)),
                       error_count, FALSE, FALSE)
              ELSE RecoveryAction("Escalate", 0, 0, FALSE, FALSE)
      [] strategy.kind = "Graceful" ->
           RecoveryAction("Continue", 0, 0, TRUE, strategy.fallback_enabled)
      [] strategy.kind = "Stop" -> RecoveryAction("Stop", 0, 0, FALSE, FALSE)
      [] strategy.kind = "Restart" -> RecoveryAction("Restart", 0, 0, FALSE, FALSE)
      [] OTHER -> RecoveryAction("Escalate", 0, 0, FALSE, FALSE)

\* ErrorHandler::handle_error when nothing else runs between its steps
HandleError(h, component) ==
    LET counted == IncrementErrorCount(StoreErrorHistory(h), component)
    IN [handler |-> counted,
        action |-> ExecuteRecovery(counted, component,
                                   GetRecoveryStrategy(counted, component))]

\* ErrorHandler::set_recovery_strategy
SetRecoveryStrategy(h, component, strategy) ==
    [h EXCEPT !.recovery_strategies[component] = strategy]

\* ErrorHandler::reset_error_count
ResetErrorCount(h, component) ==
    [h EXCEPT !.error_counts[component] = 0]

\* the two callers that may be inside handle_error at once
Callers == {1, 2}

\* the component names the callers put in their error contexts
ErrComponents == {e.component : e \in ErrorInputs}

\* the components whose strategy the callers replace, and what they install
OverrideComponents == {"test_component"}

StrategyInputs ==
    {StopStrategy, RestartStrategy, RetryStrategy(InputMaxAttempts, InputBaseDelayMs)}

\* a call of handle_error: where it stands, what it was given, what it has
\* read and what it returned
HandleCall(pc, component, kind, strategy, action) ==
    [pc |-> pc, component |-> component, kind |-> kind,
     strategy |-> strategy, action |-> action]

NoHandleCall == HandleCall("idle", "device", "Device", NoStrategy, NoAction)

EhInit ==
    /\ ehHandler = ErrorHandlerNew
    /\ ehCalls = [c \in Callers |-> NoHandleCall]
    /\ ehOverrides = [c \in ComponentNames |-> NoStrategy]
    /\ ehHandled = 0

\* handle_error up to increment_error_count: log_error, store_error_history
\* and the increment
EhHandleBegin(c, component, kind) ==
    /\ ehCalls[c].pc \in {"idle", "returned"}
    /\ ehHandled < MaxHandled
    /\ ehHandled >= MaxMixed => c = 1 /\ component \in OverrideComponents
    /\ ehHandler' = IncrementErrorCount(StoreErrorHistory(ehHandler), component)
    /\ ehCalls' = [ehCalls EXCEPT
                      ![c] = HandleCall("counted", component, kind, NoStrategy, NoAction)]
    /\ ehHandled' = ehHandled + 1
    /\ UNCHANGED ehOverrides
    /\ UNCHANGED <<bufVars, chVars, pkVars, svVars, cmVars, vdVars, asVars,
                 lkVars, csVars, rcVars, rgVars>>

\* handle_error: get_recovery_strategy
EhHandleStrategy(c) ==
    /\ ehCalls[c].pc = "counted"
    /\ ehCalls' = [ehCalls EXCEPT
                      ![c].pc = "fetched",
                      ![c].strategy = GetRecoveryStrategy(ehHandler, ehCalls[c].component)]
    /\ UNCHANGED <<ehHandler, ehOverrides, ehHandled>>
    /\ UNCHANGED <<bufVars, chVars, pkVars, svVars, cmVars, vdVars, asVars,
                 lkVars, csVars, rcVars, rgVars>>

\* handle_error from execute_recovery to its return
EhHandleFinish(c) ==
    /\ ehCalls[c].pc = "fetched"
    /\ ehCalls' = [ehCalls EXCEPT
                      ![c].pc = "returned",
                      ![c].action = ExecuteRecovery(ehHandler, ehCalls[c].component,
                                                    ehCalls[c].strategy)]
    /\ UNCHANGED <<ehHandler, ehOverrides, ehHandled>>
    /\ UNCHANGED <<bufVars, chVars, pkVars, svVars, cmVars, vdVars, asVars,
                 lkVars, csVars, rcVars, rgVars>>

EhSetRecoveryStrategy(component, strategy) ==
    /\ ehHandler' = SetRecoveryStrategy(ehHandler, component, strategy)
    /\ ehOverrides' = [ehOverrides EXCEPT ![component] = strategy]
    /\ UNCHANGED <<ehCalls, ehHandled>>
    /\ UNCHANGED <<bufVars, chVars, pkVars, svVars, cmVars, vdVars, asVars,
                 lkVars, csVars, rcVars, rgVars>>

EhResetErrorCount(component) ==
    /\ ehHandled < MaxMixed
    /\ ehHandler' = ResetErrorCount(ehHandler, component)
    /\ UNCHANGED <<ehCalls, ehOverrides, ehHandled>>
    /\ UNCHANGED <<bufVars, chVars, pkVars, svVars, cmVars, vdVars, asVars,
                 lkVars, csVars, rcVars, rgVars>>

EhNext ==
    \/ \E c \in Callers : \E e \in ErrorInputs : EhHandleBegin(c, e.component, e.kind)
    \/ \E c \in Callers : EhHandleStrategy(c)
    \/ \E c \in Callers : EhHandleFinish(c)
    \/ \E component \in OverrideComponents : \E strategy \in StrategyInputs :
          EhSetRecoveryStrategy(component, strategy)
    \/ \E component \in ErrComponents : EhResetErrorCount(component)

----------------------------------------------------------------------------
(* StreamingWhisperService (streaming_whisper.rs) *)

\* StreamingWhisperConfig, as far as transcribe_chunk reads it; temperatures
\* are in hundredths. The first temperature setting is the one the context
\* manager builds, the second one caps the temperature at 0.6.
TemperatureConfigs ==
    {[base_temperature |-> BaseTemperature,
      temperature_increment |-> TemperatureIncrement,
      max_temperature |-> MaxTemperature],
     [base_temperature |-> BaseTemperature,
      temperature_increment |-> TemperatureIncrement,
      max_temperature |-> 3 * TemperatureIncrement]}

StreamingWhisperConfig(max_retries, t, max_processing_time_ms) ==
    [max_retries |-> max_retries,
     base_temperature |-> t.base_temperature,
     temperature_increment |-> t.temperature_increment,
     max_temperature |-> t.max_temperature,
     max_processing_time_ms |-> max_processing_time_ms]

\* the whisper_config of StreamingTranscriptionContextManager::new
ManagerWhisperConfig ==
    StreamingWhisperConfig(ManagerMaxRetries,
        [base_temperature |-> BaseTemperature,
         temperature_increment |-> TemperatureIncrement,
         max_temperature |-> MaxTemperature],
        ChunkTimeoutMs)

\* the configurations a service is built with: no retry or MaxMaxRetries
\* retries, under either temperature setting
ConfigInputs ==
    {StreamingWhisperConfig(r, t, ChunkTimeoutMs) :
        r \in {0, MaxMaxRetries}, t \in TemperatureConfigs}

\* TemperatureScheduler::new
TemperatureSchedulerNew(cfg) ==
    [base_temperature |-> cfg.base_temperature,
     increment |-> cfg.temperature_increment,
     max_temperature |-> cfg.max_temperature,
     current_retry |-> 0]

\* a variant of get_temperature without the cap
GetTemperatureUncapped(ts) == ts.base_temperature + ts.current_retry * ts.increment

\* TemperatureScheduler::get_temperature
GetTemperature(ts) ==
    Min2(ts.base_temperature + ts.current_retry * ts.increment, ts.max_temperature)

\* TemperatureScheduler::next_retry
NextRetry(ts) == [ts EXCEPT !.current_retry = @ + 1]

\* what one call of perform_transcription does on an initialized service: it
\* returns a transcription or fails, and takes no time worth counting or
\* SlowAttemptMs; a transcription is returned without delay
AttemptOutcomes ==
    {[ok |-> TRUE, ms |-> 0], [ok |-> FALSE, ms |-> 0], [ok |-> FALSE, ms |-> SlowAttemptMs]}

\* the engine's answers to the attempts made on one chunk; no attempt is
\* made after the first transcription, so one answer is listed for those
Engines(cfg) ==
    {e \in [0..cfg.max_retries -> AttemptOutcomes] :
        \A i, j \in 0..cfg.max_retries : i < j /\ e[i].ok => e[j].ok}

\* perform_transcription given the engine's first answer on every attempt
PerformTranscriptionStale(ready, engine, retry) ==
    IF ready THEN engine[0] ELSE [ok |-> FALSE, ms |-> 0]

\* StreamingWhisperService::perform_transcription: without a whisper context
\* it fails at once
PerformTranscription(ready, engine, retry) ==
    IF ready THEN engine[retry] ELSE [ok |-> FALSE, ms |-> 0]

\* the loop of transcribe_chunk from attempt retry on: ts is the scheduler,
\* elapsed is chunk_start_time.elapsed(), temperatures are those tried so far
RECURSIVE TranscribeAttempts(_, _, _, _, _, _, _)
TranscribeAttempts(cfg, ready, engine, ts, retry, elapsed, temperatures) ==
    LET temperature == GetTemperature(ts)
        tried == Append(temperatures, temperature)
        attempt == PerformTranscription(ready, engine, retry)
    IN IF attempt.ok
       THEN [outcome |-> "Ok", retry_count |-> retry, temperature_used |-> temperature,
             temperatures |-> tried, elapsed |-> elapsed + attempt.ms]
       ELSE LET more == retry < cfg.max_retries
                next_ts == IF more THEN NextRetry(ts) ELSE ts
                later == elapsed + attempt.ms + (IF more THEN RetrySleepMs ELSE 0)
            IN IF later > cfg.max_processing_time_ms
               THEN [outcome |-> "Timeout", retry_count |-> retry,
                     temperature_used |-> temperature,
                     temperatures |-> tried, elapsed |-> later]
               ELSE IF more
               THEN TranscribeAttempts(cfg, ready, engine, next_ts, retry + 1,
                                       later, tried)
               ELSE [outcome |-> "Failed", retry_count |-> retry,
                     temperature_used |-> temperature,
                     temperatures |-> tried, elapsed |-> later]

\* streaming_whisper.rs ContextManager::new
WhisperContextNew == [context_buffer |-> << >>, text_context |-> << >>]

\* context_manager.rs: max_context_samples of the whisper_config
ServiceMaxContextSamples == SampleRate * MaxContextDurationS

\* ContextManager::add_audio_context
AddAudioContext(ctx, samples) ==
    [ctx EXCEPT !.context_buffer = LastN(@ \o samples, ServiceMaxContextSamples)]

\* ContextManager::add_text_context; the text of a chunk is named by the
\* chunk's id and is never blank
AddTextContext(ctx, text) ==
    [ctx EXCEPT !.text_context = LastN(Append(@, text), MaxTextSegments)]

\* ContextManager::reset
WhisperContextReset(ctx) == WhisperContextNew

\* StreamingStats::default, without the processing times
StreamingStatsNew ==
    [total_transcriptions |-> 0, retry_count |-> 0, error_count |-> 0,
     context_hits |-> 0, total_audio_samples |-> 0]

\* the service state the transcription of chunks reads and writes
ServiceState(context, stats, handler) ==
    [context |-> context, stats |-> stats, handler |-> handler]

\* StreamingWhisperService::transcribe_chunk: the service afterwards, what the
\* call returned and how often it called handle_error
TranscribeChunk(sv, cfg, ready, engine, chunk) ==
    LET has_context == sv.context.text_context # << >>
        t == TranscribeAttempts(cfg, ready, engine, TemperatureSchedulerNew(cfg),
                                0, 0, << >>)
    IN CASE t.outcome = "Ok" ->
              [service |-> [sv EXCEPT !.stats.context_hits =
                                          IF has_context THEN @ + 1 ELSE @],
               attempts |-> t, handled |-> 0,
               result |-> [text |-> chunk.chunk_id, retry_count |-> t.retry_count,
                           temperature_used |-> t.temperature_used,
                           boundary_type |-> chunk.boundary_type,
                           has_context |-> has_context,
                           processing_time_ms |-> t.elapsed]]
         [] t.outcome = "Timeout" ->
              [service |-> [sv EXCEPT !.handler =
                                          HandleError(@, "streaming_whisper").handler],
               attempts |-> t, handled |-> 1,
               result |-> [text |-> chunk.chunk_id, retry_count |-> t.retry_count,
                           temperature_used |-> t.temperature_used,
                           boundary_type |-> chunk.boundary_type,
                           has_context |-> has_context,
                           processing_time_ms |-> t.elapsed]]
         [] OTHER ->
              [service |-> [sv EXCEPT !.stats.error_count = @ + 1,
                                      !.stats.retry_count = @ + cfg.max_retries],
               attempts |-> t, handled |-> 0,
               result |-> [text |-> chunk.chunk_id, retry_count |-> t.retry_count,
                           temperature_used |-> t.temperature_used,
                           boundary_type |-> chunk.boundary_type,
                           has_context |-> has_context,
                           processing_time_ms |-> t.elapsed]]

\* the loop of process_streaming_audio over the ready chunks from chunk i on:
\* the service afterwards, the results and, per chunk, what became of it
RECURSIVE TranscribeReadyChunks(_, _, _, _, _, _)
TranscribeReadyChunks(sv, cfg, ready, engine, chunks, i) ==
    IF i > Len(chunks)
    THEN [service |-> sv, results |-> << >>, log |-> << >>, elapsed |-> 0]
    ELSE LET chunk == chunks[i]
             t == TranscribeChunk(sv, cfg, ready, engine, chunk)
             ok == t.attempts.outcome = "Ok"
             after ==
                 IF ok
                 THEN [t.service EXCEPT
                          !.context = AddTextContext(AddAudioContext(@, chunk.samples),
                                                     t.result.text)]
                 ELSE [t.service EXCEPT
                          !.handler = HandleError(@, "streaming_whisper").handler]
             rest == TranscribeReadyChunks(after, cfg, ready, engine, chunks, i + 1)
         IN [service |-> rest.service,
             results |-> (IF ok THEN <<t.result>> ELSE << >>) \o rest.results,
             log |-> <<[chunk_id |-> chunk.chunk_id,
                        outcome |-> t.attempts.outcome,
                        temperatures |-> t.attempts.temperatures,
                        retry_count |-> t.result.retry_count,
                        temperature_used |-> t.result.temperature_used,
                        handled |-> t.handled + (IF ok THEN 0 ELSE 1)]>> \o rest.log,
             elapsed |-> t.attempts.elapsed + rest.elapsed]

\* StreamingWhisperService::process_streaming_audio on a batch for which the
\* chunker handed out chunks
ProcessStreamingAudio(sv, cfg, ready, engine, chunks, batch_len) ==
    LET r == TranscribeReadyChunks(sv, cfg, ready, engine, chunks, 1)
    IN [r EXCEPT !.service.stats.total_transcriptions = @ + Len(r.results),
                 !.service.stats.total_audio_samples = @ + batch_len]

\* the engine asked about on a batch without a ready chunk
IdleEngine(cfg) == [retry \in 0..cfg.max_retries |-> [ok |-> FALSE, ms |-> 0]]

\* IntelligentChunker::reset (chunk_id_counter is left as it is)
ChunkerReset(ck) ==
    [ck EXCEPT !.current_chunk = << >>, !.chunk_start_time = NoInstant,
               !.silence_start_time = NoInstant, !.context_buffer = << >>]

\* the latest process_streaming_audio call: the source of the batch, whether
\* the service was initialized, what the engine answered, the results
\* returned and what became of each ready chunk
BatchOutcome(source, ready, engine, results, log) ==
    [source |-> source, ready |-> ready, engine |-> engine, results |-> results,
     log |-> log]

NoBatch(cfg) == BatchOutcome("microphone", FALSE, IdleEngine(cfg), << >>, << >>)

SvIdle ==
    /\ svConfig = ManagerWhisperConfig
    /\ svReady = FALSE
    /\ svService = ServiceState(WhisperContextNew, StreamingStatsNew, ErrorHandlerNew)
    /\ svLast = NoBatch(svConfig)

\* StreamingWhisperService::new with any of the configurations
SvInit ==
    /\ svConfig \in ConfigInputs
    /\ svReady = FALSE
    /\ svService = ServiceState(WhisperContextNew, StreamingStatsNew, ErrorHandlerNew)
    /\ svLast = NoBatch(svConfig)

\* StreamingWhisperService::initialize
SvInitialize ==
    /\ ~svReady
    /\ svReady' = TRUE
    /\ UNCHANGED <<svConfig, svService, svLast>>
    /\ UNCHANGED <<bufVars, chVars, pkVars, ehVars, cmVars, vdVars, asVars,
                 lkVars, csVars, rcVars, rgVars>>

\* process_streaming_audio(audio_samples): the chunker under its mutex, then
\* the transcription of the ready chunks with whatever the engine answers,
\* during which the clock moves on
SvProcessStreamingAudio(src, n, vads) ==
    /\ pkBatches < MaxServiceBatches
    /\ \E c \in {ProcessStream(pkChunker,
                               [i \in 1..n |-> Sample(src, pkSent[src] + i)],
                               vads, pkNow)} :
          /\ pkChunker' = c.chunker
          /\ pkEmitted' = pkEmitted \o
                 [i \in 1..Len(c.chunks) |-> [source |-> src, chunk |-> c.chunks[i]]]
          /\ \E engine \in (IF c.chunks = << >> THEN {IdleEngine(svConfig)}
                                                ELSE Engines(svConfig)) :
             \E r \in {ProcessStreamingAudio(svService, svConfig, svReady, engine,
                                             c.chunks, n)} :
                /\ svService' = r.service
                /\ svLast' = BatchOutcome(src, svReady, engine, r.results, r.log)
                /\ pkNow' = pkNow + r.elapsed
    /\ pkSent' = [pkSent EXCEPT ![src] = @ + n]
    /\ pkBatches' = pkBatches + 1
    /\ UNCHANGED <<pkTicks, svConfig, svReady>>
    /\ UNCHANGED <<bufVars, chVars, ehVars, cmVars, vdVars, asVars,
                 lkVars, csVars, rcVars, rgVars>>

\* StreamingWhisperService::reset_context
SvResetContext ==
    /\ svService' = [svService EXCEPT !.context = WhisperContextReset(@)]
    /\ pkChunker' = ChunkerReset(pkChunker)
    /\ UNCHANGED <<pkNow, pkTicks, pkSent, pkBatches, pkEmitted>>
    /\ UNCHANGED <<svConfig, svReady, svLast>>
    /\ UNCHANGED <<bufVars, chVars, ehVars, cmVars, vdVars, asVars,
                 lkVars, csVars, rcVars, rgVars>>

SvNext ==
    \/ SvInitialize
    \/ \E n \in 1..ServiceBatchLen : \E vads \in [1..Pieces(n) -> VadResults] :
          SvProcessStreamingAudio("microphone", n, vads)
    \/ SvResetContext
    \/ \E ms \in PipeTickSteps : PipeTick(ms)

----------------------------------------------------------------------------
(* StreamingTranscriptionContextManager (context_manager.rs) *)

\* ContextManagerEvent as a subscriber of the event bus sees it; the fields a
\* variant does not have are "" / 0 / FALSE
Event(type, source, sequence_id, boundary_type, chunk_boundary, is_active, recoverable) ==
    [type |-> type, source |-> source, sequence_id |-> sequence_id,
     boundary_type |-> boundary_type, chunk_boundary |-> chunk_boundary,
     is_active |-> is_active, recoverable |-> recoverable,
     old_model |-> "", new_model |-> ""]

\* TranscriptionReady(EnhancedTranscriptionResult): transcription.boundary_type
\* is the chunk's, metadata.chunk_boundary is SpeechEnd whatever the chunk
TranscriptionReady(source, sequence_id, result) ==
    Event("TranscriptionReady", source, sequence_id, result.boundary_type,
          "SpeechEnd", FALSE, FALSE)

\* ProcessingError { error, source, recoverable }, sent in the Err arm of
\* process_audio_stream only, which process_streaming_audio never takes
ProcessingError(source, recoverable) ==
    Event("ProcessingError", source, 0, "", "", FALSE, recoverable)

StatusUpdate(is_active) == Event("StatusUpdate", "", 0, "", "", is_active, FALSE)

\* ModelChanged { old_model, new_model }
ModelChanged(old_model, new_model) ==
    [Event("ModelChanged", "", 0, "", "", FALSE, FALSE)
        EXCEPT !.old_model = old_model, !.new_model = new_model]

\* ContextManagerConfig::default().preferred_model
PreferredModel == "base"

\* the model names callers give to change_model
ModelInputs == {"base", "small"}

\* a task spawned by start_processing_pipeline: where it stands in
\* process_audio_stream, whether its JoinHandle is in processing_tasks, the
\* results it still has to emit and the sequence_id stamped on the first
Task(source, pc, listed, pending, sequence_id) ==
    [source |-> source, pc |-> pc, listed |-> listed, pending |-> pending,
     sequence_id |-> sequence_id]

\* a call of start() or stop(): where it stands and the is_active its
\* get_status has read
ManagerCall(pc, status_active) == [pc |-> pc, status_active |-> status_active]

IdleCall == ManagerCall("idle", FALSE)

\* a call of change_model(model_name): where it stands, the is_active it has
\* read, what it returned, and the numbers of start() calls, stop() calls and
\* tasks there were when it was made (by which the return of its own stop()
\* and start() is told)
ChangeCall(pc, was_active, model_name, result, before) ==
    [pc |-> pc, was_active |-> was_active, model_name |-> model_name,
     result |-> result, before |-> before]

NoChangeCall == ChangeCall("idle", FALSE, "", "", [start |-> 0, stop |-> 0, tasks |-> 0])

\* the engine answers every attempt on the chunks of one batch alike, and
\* at once
ManagerEngines ==
    {[retry \in 0..ManagerMaxRetries |-> o] : o \in {a \in AttemptOutcomes : a.ms = 0}}

\* StreamingTranscriptionContextManager::new (auto_model_management = false)
CmInit ==
    /\ cmActive = FALSE
    /\ cmModel = ""
    /\ cmTasks = << >>
    /\ cmStart = IdleCall
    /\ cmStop = IdleCall
    /\ cmCalls = [start |-> 0, stop |-> 0, change |-> 0]
    /\ cmChange = NoChangeCall
    /\ cmSeq = 0
    /\ cmEvents = << >>
    /\ cmQuiet = FALSE
    /\ cmHeld = FALSE

\* the while condition of process_audio_stream, read by a task
LoopOrExit == IF cmActive THEN "recv" ELSE "done"

\* start(): the is_active check; an active manager refuses. Callers make
\* up to starts calls, and call start() again only once stop() has been
\* called.
CmStartCall(starts) ==
    /\ cmStart.pc = "idle"
    /\ cmCalls.start < starts
    /\ cmCalls.start <= cmCalls.stop
    /\ cmCalls' = [cmCalls EXCEPT !.start = @ + 1]
    /\ cmStart' = IF cmActive THEN IdleCall ELSE ManagerCall("checked", FALSE)
    /\ cmQuiet' = FALSE
    /\ UNCHANGED <<cmActive, cmModel, cmTasks, cmStop, cmChange, cmSeq, cmEvents, cmHeld>>
    /\ UNCHANGED <<bufVars, chVars, pkVars, ehVars, svVars, vdVars, asVars,
                 lkVars, csVars, rcVars, rgVars>>

\* start(): ensure_model_loaded; found tells whether the preferred model is
\* available when none is loaded yet
CmStartEnsureModel(found) ==
    /\ cmStart.pc = "checked"
    /\ cmModel # "" => found
    /\ IF cmModel # ""
       THEN /\ cmStart' = ManagerCall("loaded", FALSE)
            /\ UNCHANGED <<cmModel, cmEvents>>
       ELSE IF found
       THEN /\ cmStart' = ManagerCall("loaded", FALSE)
            /\ cmModel' = PreferredModel
            /\ cmEvents' = Append(cmEvents, ModelChanged(cmModel, PreferredModel))
       ELSE /\ cmStart' = IdleCall
            /\ UNCHANGED <<cmModel, cmEvents>>
    /\ UNCHANGED <<cmActive, cmTasks, cmStop, cmCalls, cmChange, cmSeq, cmQuiet, cmHeld>>
    /\ UNCHANGED <<bufVars, chVars, pkVars, ehVars, svVars, vdVars, asVars,
                 lkVars, csVars, rcVars, rgVars>>

\* start(): start_processing_pipeline spawns the two tasks under the lock of
\* processing_tasks
CmStartSpawn ==
    /\ cmStart.pc = "loaded"
    /\ cmTasks' = cmTasks \o <<Task("microphone", "spawned", TRUE, << >>, 0),
                               Task("speaker", "spawned", TRUE, << >>, 0)>>
    /\ cmStart' = ManagerCall("spawned", FALSE)
    /\ UNCHANGED <<cmActive, cmModel, cmStop, cmCalls, cmChange, cmSeq, cmEvents, cmQuiet, cmHeld>>
    /\ UNCHANGED <<bufVars, chVars, pkVars, ehVars, svVars, vdVars, asVars,
                 lkVars, csVars, rcVars, rgVars>>

\* start(): is_active.store(true) and the reads of get_status
CmStartStore ==
    /\ cmStart.pc = "spawned"
    /\ cmActive' = TRUE
    /\ cmStart' = ManagerCall("status", TRUE)
    /\ UNCHANGED <<cmModel, cmTasks, cmStop, cmCalls, cmChange, cmSeq, cmEvents, cmQuiet, cmHeld>>
    /\ UNCHANGED <<bufVars, chVars, pkVars, ehVars, svVars, vdVars, asVars,
                 lkVars, csVars, rcVars, rgVars>>

\* start(): the StatusUpdate event and the return
CmStartEmit ==
    /\ cmStart.pc = "status"
    /\ cmEvents' = Append(cmEvents, StatusUpdate(cmStart.status_active))
    /\ cmStart' = IdleCall
    /\ UNCHANGED <<cmActive, cmModel, cmTasks, cmStop, cmCalls, cmChange, cmSeq, cmQuiet, cmHeld>>
    /\ UNCHANGED <<bufVars, chVars, pkVars, ehVars, svVars, vdVars, asVars,
                 lkVars, csVars, rcVars, rgVars>>

\* stop(): the is_active check and is_active.store(false); an inactive
\* manager returns at once. Callers call stop() only after start().
CmStopCall ==
    /\ cmStop.pc = "idle"
    /\ cmCalls.stop < MaxStops
    /\ cmCalls.stop < cmCalls.start
    /\ cmCalls' = [cmCalls EXCEPT !.stop = @ + 1]
    /\ cmStop' = IF cmActive THEN ManagerCall("flagged", FALSE) ELSE IdleCall
    /\ cmActive' = FALSE
    /\ cmHeld' = IF cmActive THEN pkChunker.current_chunk # << >> ELSE cmHeld
    /\ UNCHANGED <<cmModel, cmTasks, cmStart, cmChange, cmSeq, cmEvents, cmQuiet>>
    /\ UNCHANGED <<bufVars, chVars, pkVars, ehVars, svVars, vdVars, asVars,
                 lkVars, csVars, rcVars, rgVars>>

\* stop(): every handle in processing_tasks is drained, aborted and joined
CmStopAbort ==
    /\ cmStop.pc = "flagged"
    /\ cmTasks' = [i \in 1..Len(cmTasks) |->
                      IF cmTasks[i].listed
                      THEN Task(cmTasks[i].source,
                                IF cmTasks[i].pc = "done" THEN "done" ELSE "aborted",
                                FALSE, << >>, 0)
                      ELSE cmTasks[i]]
    /\ cmStop' = ManagerCall("joined", FALSE)
    /\ UNCHANGED <<cmActive, cmModel, cmStart, cmCalls, cmChange, cmSeq, cmEvents, cmQuiet, cmHeld>>
    /\ UNCHANGED <<bufVars, chVars, pkVars, ehVars, svVars, vdVars, asVars,
                 lkVars, csVars, rcVars, rgVars>>

\* stop(): whisper_service.reset_context() and the reads of get_status
CmStopReset ==
    /\ cmStop.pc = "joined"
    /\ svService' = [svService EXCEPT !.context = WhisperContextReset(@)]
    /\ pkChunker' = ChunkerReset(pkChunker)
    /\ cmStop' = ManagerCall("status", cmActive)
    /\ UNCHANGED <<cmActive, cmModel, cmTasks, cmStart, cmCalls, cmChange, cmSeq, cmEvents,
                   cmQuiet, cmHeld>>
    /\ UNCHANGED <<pkNow, pkTicks, pkSent, pkBatches, pkEmitted>>
    /\ UNCHANGED <<svConfig, svReady, svLast>>
    /\ UNCHANGED <<bufVars, chVars, ehVars, vdVars, asVars,
                 lkVars, csVars, rcVars, rgVars>>

\* stop(): the StatusUpdate event and the return
CmStopEmit ==
    /\ cmStop.pc = "status"
    /\ cmEvents' = Append(cmEvents, StatusUpdate(cmStop.status_active))
    /\ cmStop' = IdleCall
    /\ cmQuiet' = IF ~cmStop.status_active /\ cmStart.pc = "idle" THEN TRUE ELSE cmQuiet
    /\ UNCHANGED <<cmActive, cmModel, cmTasks, cmStart, cmCalls, cmChange, cmSeq, cmHeld>>
    /\ UNCHANGED <<bufVars, chVars, pkVars, ehVars, svVars, vdVars, asVars,
                 lkVars, csVars, rcVars, rgVars>>

\* process_audio_stream up to its first recv: subscribe and the first test of
\* is_active
TaskRun(t) ==
    /\ cmTasks[t].pc = "spawned"
    /\ cmTasks' = [cmTasks EXCEPT ![t].pc = LoopOrExit]
    /\ UNCHANGED <<cmActive, cmModel, cmStart, cmStop, cmCalls, cmChange, cmSeq, cmEvents,
                   cmQuiet, cmHeld>>
    /\ UNCHANGED <<bufVars, chVars, pkVars, ehVars, svVars, vdVars, asVars,
                 lkVars, csVars, rcVars, rgVars>>

\* process_audio_stream: a batch of n samples, of up to batches in all, is
\* received and goes through
\* process_streaming_audio, which returns Ok whatever becomes of the chunks;
\* the first result gets its sequence_id, then the task waits for the stats
\* lock. Without a result the task is back at the test of is_active.
TaskReceive(t, n, vads, batches) ==
    /\ cmTasks[t].pc = "recv"
    /\ pkBatches < batches
    /\ \E src \in {cmTasks[t].source} :
       \E c \in {ProcessStream(pkChunker,
                               [i \in 1..n |-> Sample(src, pkSent[src] + i)],
                               vads, pkNow)} :
          /\ pkChunker' = c.chunker
          /\ pkEmitted' = pkEmitted \o
                 [i \in 1..Len(c.chunks) |-> [source |-> src, chunk |-> c.chunks[i]]]
          /\ pkSent' = [pkSent EXCEPT ![src] = @ + n]
          /\ \E engine \in (IF c.chunks = << >> THEN {IdleEngine(svConfig)}
                                                ELSE ManagerEngines) :
             \E r \in {ProcessStreamingAudio(svService, svConfig, svReady, engine,
                                             c.chunks, n)} :
                /\ svService' = r.service
                /\ svLast' = BatchOutcome(src, svReady, engine, r.results, r.log)
                /\ pkNow' = pkNow + r.elapsed
                /\ IF r.results = << >>
                   THEN /\ cmTasks' = [cmTasks EXCEPT ![t].pc = LoopOrExit]
                        /\ cmSeq' = cmSeq
                   ELSE /\ cmTasks' = [cmTasks EXCEPT
                                          ![t] = Task(src, "stamped", @.listed,
                                                      r.results, cmSeq)]
                        /\ cmSeq' = cmSeq + 1
    /\ pkBatches' = pkBatches + 1
    /\ UNCHANGED <<cmActive, cmModel, cmStart, cmStop, cmCalls, cmChange, cmEvents, cmQuiet, cmHeld>>
    /\ UNCHANGED <<pkTicks, svConfig, svReady>>
    /\ UNCHANGED <<bufVars, chVars, ehVars, vdVars, asVars,
                 lkVars, csVars, rcVars, rgVars>>

\* process_audio_stream: with the stats lock the task updates the statistics
\* and sends TranscriptionReady (the text of a result is never blank); the
\* next result gets its sequence_id, or the task is back at the test of
\* is_active
TaskEmit(t) ==
    /\ cmTasks[t].pc = "stamped"
    /\ cmEvents' = Append(cmEvents,
                          TranscriptionReady(cmTasks[t].source, cmTasks[t].sequence_id,
                                             Head(cmTasks[t].pending)))
    /\ IF Len(cmTasks[t].pending) > 1
       THEN /\ cmTasks' = [cmTasks EXCEPT ![t].pending = Tail(@),
                                          ![t].sequence_id = cmSeq]
            /\ cmSeq' = cmSeq + 1
       ELSE /\ cmTasks' = [cmTasks EXCEPT ![t].pending = << >>,
                                          ![t].sequence_id = 0,
                                          ![t].pc = LoopOrExit]
            /\ cmSeq' = cmSeq
    /\ UNCHANGED <<cmActive, cmModel, cmStart, cmStop, cmCalls, cmChange, cmQuiet, cmHeld>>
    /\ UNCHANGED <<bufVars, chVars, pkVars, ehVars, svVars, vdVars, asVars,
                 lkVars, csVars, rcVars, rgVars>>

\* the batches the manager's tasks receive are plain speech or plain silence
ManagerVadResults ==
    {r \in VadResults :
        r.confidence > 0 /\ ~r.has_pause /\ (r.is_speaking <=> ~r.energy_low)}

\* get_whisper_service().initialize(..), called before the first start() if
\* at all: the manager itself never initializes the service
CmInitializeService == cmCalls.start = 0 /\ SvInitialize

\* time passes, LongTickMs at a time
CmTick(ticks) == pkTicks < ticks /\ PipeTick(LongTickMs)

\* one session of the manager: start(), audio, stop()
CmNext ==
    \/ CmStartCall(MaxStarts)
    \/ \E found \in BOOLEAN : CmStartEnsureModel(found)
    \/ CmStartSpawn
    \/ CmStartStore
    \/ CmStartEmit
    \/ CmStopCall
    \/ CmStopAbort
    \/ CmStopReset
    \/ CmStopEmit
    \/ \E t \in 1..Len(cmTasks) : TaskRun(t)
    \/ \E t \in 1..Len(cmTasks) : \E n \in 1..ServiceBatchLen :
          \E vads \in [1..Pieces(n) -> ManagerVadResults] :
              TaskReceive(t, n, vads, MaxManagerBatches)
    \/ \E t \in 1..Len(cmTasks) : TaskEmit(t)
    \/ CmInitializeService
    \/ CmTick(MaxManagerTicks)

\* change_model(model_name): was_active is read. Callers make one call at a
\* time here: no start() or stop() of theirs is in progress.
CmChangeCall(model_name) ==
    /\ cmChange.pc = "idle"
    /\ cmCalls.change < MaxChanges
    /\ cmStart.pc = "idle" /\ cmStop.pc = "idle"
    /\ cmCalls' = [cmCalls EXCEPT !.change = @ + 1]
    /\ cmChange' = ChangeCall(IF cmActive THEN "stop" ELSE "load", cmActive,
                              model_name, "",
                              [start |-> cmCalls.start, stop |-> cmCalls.stop,
                               tasks |-> Len(cmTasks)])
    /\ UNCHANGED <<cmActive, cmModel, cmTasks, cmStart, cmStop, cmSeq, cmEvents,
                   cmQuiet, cmHeld>>
    /\ UNCHANGED <<bufVars, chVars, pkVars, ehVars, svVars, vdVars, asVars,
                 lkVars, csVars, rcVars, rgVars>>

\* change_model: self.stop() is called when was_active
CmChangeStop ==
    /\ cmChange.pc = "stop"
    /\ cmCalls.stop = cmChange.before.stop
    /\ CmStopCall

\* the stop() called by change_model has returned (it returns Ok always)
ChangeStopped ==
    cmChange.pc = "stop" /\ cmCalls.stop > cmChange.before.stop /\ cmStop.pc = "idle"

\* change_model without its final start(): the model is swapped and the call
\* returns
CmChangeLoadNoRestart(ok) ==
    /\ cmChange.pc = "load" \/ ChangeStopped
    /\ IF ok
       THEN /\ cmModel' = cmChange.model_name
            /\ cmEvents' = Append(cmEvents, ModelChanged(cmModel, cmChange.model_name))
            /\ cmChange' = [cmChange EXCEPT !.pc = "idle", !.result = "Ok"]
       ELSE /\ cmChange' = [cmChange EXCEPT !.pc = "idle", !.result = "Err"]
            /\ UNCHANGED <<cmModel, cmEvents>>
    /\ UNCHANGED <<cmActive, cmTasks, cmStart, cmStop, cmCalls, cmSeq, cmQuiet, cmHeld>>
    /\ UNCHANGED <<bufVars, chVars, pkVars, ehVars, svVars, vdVars, asVars,
                 lkVars, csVars, rcVars, rgVars>>

\* change_model: whisper_engine.load_model(model_name), which succeeds (ok)
\* or not; on success current_model is set and ModelChanged is sent, and
\* without was_active the call returns Ok. A failed load returns Err.
CmChangeLoad(ok) ==
    /\ cmChange.pc = "load" \/ ChangeStopped
    /\ IF ok
       THEN /\ cmModel' = cmChange.model_name
            /\ cmEvents' = Append(cmEvents, ModelChanged(cmModel, cmChange.model_name))
            /\ cmChange' = IF cmChange.was_active
                           THEN [cmChange EXCEPT !.pc = "start"]
                           ELSE [cmChange EXCEPT !.pc = "idle", !.result = "Ok"]
       ELSE /\ cmChange' = [cmChange EXCEPT !.pc = "idle", !.result = "Err"]
            /\ UNCHANGED <<cmModel, cmEvents>>
    /\ UNCHANGED <<cmActive, cmTasks, cmStart, cmStop, cmCalls, cmSeq, cmQuiet, cmHeld>>
    /\ UNCHANGED <<bufVars, chVars, pkVars, ehVars, svVars, vdVars, asVars,
                 lkVars, csVars, rcVars, rgVars>>

\* change_model: self.start() is called when was_active
CmChangeStart ==
    /\ cmChange.pc = "start"
    /\ cmCalls.start = cmChange.before.start
    /\ CmStartCall(MaxRestarts)

\* change_model: the start() it called has returned, with Ok exactly if it
\* has spawned its tasks, and change_model returns the same
CmChangeReturn ==
    /\ cmChange.pc = "start"
    /\ cmCalls.start > cmChange.before.start
    /\ cmStart.pc = "idle"
    /\ cmChange' = [cmChange EXCEPT
                       !.pc = "idle",
                       !.result = IF Len(cmTasks) > cmChange.before.tasks
                                  THEN "Ok" ELSE "Err"]
    /\ UNCHANGED <<cmActive, cmModel, cmTasks, cmStart, cmStop, cmCalls, cmSeq,
                   cmEvents, cmQuiet, cmHeld>>
    /\ UNCHANGED <<bufVars, chVars, pkVars, ehVars, svVars, vdVars, asVars,
                 lkVars, csVars, rcVars, rgVars>>

\* start() called by the user of the manager, between change_model calls
CmUserStart == cmChange.pc = "idle" /\ CmStartCall(MaxStarts)

\* a manager whose model is changed, before or after it is started
CmChangeNext ==
    \/ CmUserStart
    \/ \E found \in BOOLEAN : CmStartEnsureModel(found)
    \/ CmStartSpawn
    \/ CmStartStore
    \/ CmStartEmit
    \/ \E model_name \in ModelInputs : CmChangeCall(model_name)
    \/ CmChangeStop
    \/ CmStopAbort
    \/ CmStopReset
    \/ CmStopEmit
    \/ \E ok \in BOOLEAN : CmChangeLoad(ok)
    \/ CmChangeStart
    \/ CmChangeReturn
    \/ \E t \in 1..Len(cmTasks) : TaskRun(t)
    \/ \E t \in 1..Len(cmTasks) : \E n \in 1..ServiceBatchLen :
          \E vads \in [1..Pieces(n) -> ManagerVadResults] :
              TaskReceive(t, n, vads, MaxRestartBatches)
    \/ \E t \in 1..Len(cmTasks) : TaskEmit(t)
    \/ CmInitializeService
    \/ CmTick(MaxRestartTicks)

\* a manager that is started again while or after it is stopped
CmRestartNext ==
    \/ CmStartCall(MaxRestarts)
    \/ \E found \in BOOLEAN : CmStartEnsureModel(found)
    \/ CmStartSpawn
    \/ CmStartStore
    \/ CmStartEmit
    \/ CmStopCall
    \/ CmStopAbort
    \/ CmStopReset
    \/ CmStopEmit
    \/ \E t \in 1..Len(cmTasks) : TaskRun(t)
    \/ \E t \in 1..Len(cmTasks) : \E n \in 1..ServiceBatchLen :
          \E vads \in [1..Pieces(n) -> ManagerVadResults] :
              TaskReceive(t, n, vads, MaxRestartBatches)
    \/ \E t \in 1..Len(cmTasks) : TaskEmit(t)
    \/ CmInitializeService
    \/ CmTick(MaxRestartTicks)

----------------------------------------------------------------------------
(* StreamingVadProcessor (streaming_vad.rs) as configured by
   IntelligentChunker::new: frames of 30 ms, pre_speech_pad_ms = 100,
   post_speech_pad_ms = 150. Energies are in thousandths. The frames fed are
   whole frames of two kinds: "silent" (all samples 0.0) and "loud" (a tone of
   amplitude 0.1, RMS energy 0.07, too weak for the pitch detector, whose
   correlation must exceed 0.3). With these inputs the adaptive threshold
   stays between its clamps 0.002 and 0.01, so the noise estimator has no
   part in any decision and is left out. *)

FrameKinds == {"silent", "loud"}

\* calculate_rms_energy of a frame
Energy(kind) == IF kind = "loud" THEN LoudEnergy ELSE 0

\* EnergyTracker::new
EnergyTrackerNew ==
    [recent_energy |-> << >>, high_energy_count |-> 0, low_energy_count |-> 0]

\* u32::saturating_sub(1)
SaturatingDec(n) == IF n > 0 THEN n - 1 ELSE 0

\* EnergyTracker::calculate
EnergyTrackerCalculate(tr, energy) ==
    LET pushed == Append(tr.recent_energy, energy)
        over == Len(pushed) > EnergyWindow
        old_high == over /\ Head(pushed) > HighEnergy
        old_low == over /\ ~(Head(pushed) > HighEnergy)
        high == IF old_high THEN SaturatingDec(tr.high_energy_count)
                ELSE tr.high_energy_count
        low == IF old_low THEN SaturatingDec(tr.low_energy_count)
               ELSE tr.low_energy_count
    IN [recent_energy |-> IF over THEN Tail(pushed) ELSE pushed,
        high_energy_count |-> IF energy > HighEnergy THEN high + 1 ELSE high,
        low_energy_count |-> IF energy > HighEnergy THEN low ELSE low + 1]

\* EnergyTracker::is_active: the average of the last three energies exceeds 0.003
EnergyTrackerIsActive(tr) ==
    LET n == Len(tr.recent_energy)
    IN /\ n >= 3
       /\ tr.recent_energy[n] + tr.recent_energy[n - 1] + tr.recent_energy[n - 2]
              > 3 * ActiveEnergy

\* StreamingVadProcessor::new
StreamingVadProcessorNew ==
    [energy_tracker |-> EnergyTrackerNew, silence_frames |-> 0,
     speech_buffer |-> << >>, is_speaking |-> FALSE,
     speech_start_time |-> FALSE, frame_count |-> 0]

\* SpeechBoundaryDetector::detect_boundaries: the processor afterwards and the
\* BoundaryInfo (has_pause for a non-empty sentence_boundaries, speech_likely
\* for speech_probability > 0.3, the confidence in percent)
DetectBoundaries(vad, kind) ==
    LET energy == Energy(kind)
        tracker == EnergyTrackerCalculate(vad.energy_tracker, energy)
        is_silence == energy < PauseSilenceEnergy /\ kind = "silent"
        silence_frames == IF is_silence THEN vad.silence_frames + 1 ELSE 0
        has_pause == silence_frames * VadFrameMs >= MinPauseDurationMs
        active == EnergyTrackerIsActive(tracker)
        high == tracker.high_energy_count
        total == tracker.high_energy_count + tracker.low_energy_count
    IN [vad |-> [vad EXCEPT !.energy_tracker = tracker,
                            !.silence_frames = silence_frames],
        info |-> [has_pause |-> has_pause,
                  is_complete_utterance |-> has_pause /\ active,
                  speech_likely |-> 10 * high > 3 * total,
                  confidence |-> Min2(100, 50 + (IF active THEN 20 ELSE 0)
                                           + (IF 2 * high > total THEN 10 ELSE 0))]]

\* process_frame: energy > threshold, for a threshold between the clamps
AboveThreshold(energy) == energy > MaxAdaptiveThreshold

\* process_frame, start of speech: what is left of the ring once it was cut
\* down to pre_speech_pad_ms / frame_duration_ms frames from the front
PrePadUncut(speech_buffer) == speech_buffer

PrePad(speech_buffer) == LastN(speech_buffer, PreSpeechPadMs \div VadFrameMs)

\* what process_frame reports on frame id, and the processor afterwards
FrameResult(vad, info, speech_segments) ==
    [vad |-> vad,
     result |-> [speech_segments |-> speech_segments,
                 is_speaking |-> vad.is_speaking,
                 has_pause |-> info.has_pause,
                 is_complete_utterance |-> info.is_complete_utterance,
                 confidence |-> info.confidence,
                 speech_buffer_size |-> Len(vad.speech_buffer)]]

\* StreamingVadProcessor::process_frame on frame id of the given kind;
\* long_enough tells whether speech_start_time.elapsed() has reached
\* min_speech_duration_ms when the speech ends
ProcessFrame(vad0, kind, id, long_enough) ==
    LET d == DetectBoundaries(vad0, kind)
        vad == d.vad
        has_speech == AboveThreshold(Energy(kind)) /\ d.info.speech_likely
    IN IF ~vad.is_speaking /\ has_speech
       THEN FrameResult([vad EXCEPT !.is_speaking = TRUE,
                                    !.speech_start_time = TRUE,
                                    !.speech_buffer = << >>],
                        d.info, Append(PrePad(vad.speech_buffer), id))
       ELSE IF vad.is_speaking /\ has_speech
       THEN FrameResult(vad, d.info, <<id>>)
       ELSE IF vad.is_speaking
       THEN LET buffered == Append(vad.speech_buffer, id)
            IN IF Len(buffered) > PostSpeechPadMs \div VadFrameMs
               THEN FrameResult([vad EXCEPT !.is_speaking = FALSE,
                                            !.speech_start_time = FALSE,
                                            !.speech_buffer = << >>],
                                d.info,
                                IF vad.speech_start_time /\ long_enough
                                THEN buffered ELSE << >>)
               ELSE FrameResult([vad EXCEPT !.speech_buffer = buffered],
                                d.info, << >>)
       ELSE FrameResult([vad EXCEPT !.speech_buffer =
                            LastN(Append(@, id),
                                  (PreSpeechPadMs \div VadFrameMs) * 2)],
                        d.info, << >>)

\* the loop of StreamingVadProcessor::process_stream over the complete frames
\* of a batch: the processor afterwards and the report on each frame
RECURSIVE ProcessFrames(_, _, _, _)
ProcessFrames(vad, kinds, id, long_enough) ==
    IF kinds = << >>
    THEN [vad |-> vad, results |-> << >>]
    ELSE LET first == ProcessFrame(vad, Head(kinds), id, long_enough)
             counted == [first.vad EXCEPT !.frame_count = @ + 1]
             rest == ProcessFrames(counted, Tail(kinds), id + 1, long_enough)
         IN [vad |-> rest.vad, results |-> <<first.result>> \o rest.results]

\* StreamingVadProcessor::reset
VadReset(vad) ==
    [vad EXCEPT !.is_speaking = FALSE, !.speech_start_time = FALSE,
                !.speech_buffer = << >>, !.frame_count = 0]

\* the frames fed before a reset() and the reports on them
NoPass == [some |-> FALSE, fed |-> << >>, out |-> << >>]

VdInit ==
    /\ vdVad = StreamingVadProcessorNew
    /\ vdFed = << >>
    /\ vdOut = << >>
    /\ vdFirst = NoPass

\* process_stream(samples) on a batch of whole frames. After a reset() the
\* stream fed is as long as the one fed before it.
VdProcessStream(kinds, long_enough) ==
    /\ Len(vdFed) + Len(kinds) <=
           (IF vdFirst.some THEN Len(vdFirst.fed) ELSE MaxVadFrames)
    /\ \E r \in {ProcessFrames(vdVad, kinds, Len(vdFed) + 1, long_enough)} :
          /\ vdVad' = r.vad
          /\ vdOut' = vdOut \o r.results
    /\ vdFed' = vdFed \o kinds
    /\ UNCHANGED vdFirst
    /\ UNCHANGED <<bufVars, chVars, pkVars, ehVars, svVars, cmVars, asVars,
                 lkVars, csVars, rcVars, rgVars>>

\* reset()
VdReset ==
    /\ ~vdFirst.some
    /\ Len(vdFed) \in 1..MaxReplayFrames
    /\ vdVad' = VadReset(vdVad)
    /\ vdFirst' = [some |-> TRUE, fed |-> vdFed, out |-> vdOut]
    /\ vdFed' = << >>
    /\ vdOut' = << >>
    /\ UNCHANGED <<bufVars, chVars, pkVars, ehVars, svVars, cmVars, asVars,
                 lkVars, csVars, rcVars, rgVars>>

VdNext ==
    \/ \E n \in 1..MaxVadBatch : \E kinds \in [1..n -> FrameKinds] :
          \E long_enough \in BOOLEAN : VdProcessStream(kinds, long_enough)
    \/ VdReset

----------------------------------------------------------------------------
(* AudioStream (core.rs): the capture stream of one device, its worker
   thread and the std::sync::mpsc control channel between them *)

\* the tasks that call stop() on the stream
StopCallers == 1..NumStopCallers

\* AudioStream::from_device has returned: the worker thread is spawned and has
\* not run yet, the managed channel is open, the control channel is empty
AudioStreamNew ==
    [is_disconnected |-> FALSE, channel_open |-> TRUE, control |-> << >>,
     thread_taken |-> FALSE, device_errors |-> 0, last_error |-> "none"]

\* the stream errors the error callback tells apart by their message: the
\* device is no longer available, permission denied, timeout, a buffer
\* overflow or underflow, and any other message
DeviceErrors == {"unavailable", "permission", "timeout", "buffer", "unknown"}

\* the worker owns the receiving end of the control channel until it returns
ControlReceiverAlive == asWorker.pc # "finished"

AsInit ==
    /\ asStream = AudioStreamNew
    /\ asWorker = [pc |-> "starting", stream |-> "none", handled |-> "none"]
    /\ asCalls = [c \in StopCallers |->
                     [pc |-> "idle", already_stopped |-> FALSE, after_recover |-> FALSE]]
    /\ asLog = << >>

\* a stop() call has returned Ok
AlreadyStopped == \E i \in 1..Len(asLog) : asLog[i].res = "Ok"

\* the worker builds the input stream and plays it; when either fails it
\* logs the error and returns
AsWorkerStart(ok) ==
    /\ asWorker.pc = "starting"
    /\ asWorker' = IF ok THEN [asWorker EXCEPT !.pc = "waiting", !.stream = "playing"]
                   ELSE [asWorker EXCEPT !.pc = "finished"]
    /\ UNCHANGED <<asStream, asCalls, asLog>>
    /\ UNCHANGED <<bufVars, chVars, pkVars, ehVars, svVars, cmVars, vdVars,
                 lkVars, csVars, rcVars, rgVars>>

\* the worker's single stream_control_rx.recv(): on Stop it pauses and drops
\* the stream, on Recover it pauses the stream and plays it again (play_ok
\* tells whether that succeeds); either way the thread function returns after
\* this one message, which drops the stream and the receiving end of the
\* control channel
AsWorkerRecv(play_ok) ==
    /\ asWorker.pc = "waiting"
    /\ asStream.control # << >>
    /\ asStream' = [asStream EXCEPT !.control = Tail(@)]
    /\ asWorker' = [pc |-> "finished", stream |-> "dropped",
                    handled |-> IF Head(asStream.control) = "Stop" THEN "Stop"
                                ELSE IF play_ok THEN "Recover"
                                ELSE "RecoverFailed"]
    /\ UNCHANGED <<asCalls, asLog>>
    /\ UNCHANGED <<bufVars, chVars, pkVars, ehVars, svVars, cmVars, vdVars,
                 lkVars, csVars, rcVars, rgVars>>

\* the stream's error callback, which runs while the stream exists. When the
\* device is no longer available it marks the stream disconnected and sends
\* Recover (the fallback to Stop is for a failed send, and the receiver is
\* alive as long as the stream is); on a permission error and on a buffer
\* error it only logs; on a timeout and on any other error it marks the
\* stream disconnected
AsDeviceError(error) ==
    /\ asWorker.stream = "playing"
    /\ asStream.device_errors < MaxDeviceErrors
    /\ asStream' = [asStream EXCEPT
           !.is_disconnected = IF error \in {"permission", "buffer"} THEN @ ELSE TRUE,
           !.control = IF error = "unavailable" THEN Append(@, "Recover") ELSE @,
           !.device_errors = @ + 1,
           !.last_error = error]
    /\ UNCHANGED <<asWorker, asCalls, asLog>>
    /\ UNCHANGED <<bufVars, chVars, pkVars, ehVars, svVars, cmVars, vdVars,
                 lkVars, csVars, rcVars, rgVars>>

\* what stop() has done to the stream when stream_control.send returns
StopSent(stream, receiver_alive) ==
    [stream EXCEPT !.is_disconnected = TRUE,
                   !.channel_open = FALSE,
                   !.control = IF receiver_alive THEN Append(@, "Stop") ELSE @]

\* stop() of caller c up to `self.stream_control.send(StreamControl::Stop(tx))?`:
\* is_disconnected is stored, the managed channel is closed, and the send
\* fails, which returns the error, when the receiver has been dropped
AsStopCall(c) ==
    /\ asCalls[c].pc = "idle"
    /\ Len(asLog) + Cardinality({d \in StopCallers : asCalls[d].pc = "join"})
           < MaxStopCalls
    /\ asStream' = StopSent(asStream, ControlReceiverAlive)
    /\ IF ControlReceiverAlive
       THEN /\ asCalls' = [asCalls EXCEPT ![c] =
                              [pc |-> "join", already_stopped |-> AlreadyStopped,
                               after_recover |-> asWorker.handled = "Recover"]]
            /\ UNCHANGED asLog
       ELSE /\ asLog' = Append(asLog,
                           [caller |-> c, already_stopped |-> AlreadyStopped,
                            after_recover |-> asWorker.handled = "Recover",
                            res |-> "Err",
                            changed |-> StopSent(asStream, FALSE) # asStream])
            /\ UNCHANGED asCalls
    /\ UNCHANGED asWorker
    /\ UNCHANGED <<bufVars, chVars, pkVars, ehVars, svVars, cmVars, vdVars,
                 lkVars, csVars, rcVars, rgVars>>

\* stop() of caller c from spawn_blocking on: it locks stream_thread, takes
\* the join handle if it is still there and joins the worker; a caller that
\* finds no handle has waited for the lock held by the caller that joins
AsStopJoin(c) ==
    /\ asCalls[c].pc = "join"
    /\ asWorker.pc = "finished"
    /\ asStream' = [asStream EXCEPT !.thread_taken = TRUE]
    /\ asLog' = Append(asLog,
                    [caller |-> c, already_stopped |-> asCalls[c].already_stopped,
                     after_recover |-> asCalls[c].after_recover,
                     res |-> "Ok", changed |-> TRUE])
    /\ asCalls' = [asCalls EXCEPT ![c] =
                      [pc |-> "idle", already_stopped |-> FALSE, after_recover |-> FALSE]]
    /\ UNCHANGED asWorker
    /\ UNCHANGED <<bufVars, chVars, pkVars, ehVars, svVars, cmVars, vdVars,
                 lkVars, csVars, rcVars, rgVars>>

AsNext ==
    \/ \E ok \in BOOLEAN : AsWorkerStart(ok)
    \/ \E play_ok \in BOOLEAN : AsWorkerRecv(play_ok)
    \/ \E error \in DeviceErrors : AsDeviceError(error)
    \/ \E c \in StopCallers : AsStopCall(c)
    \/ \E c \in StopCallers : AsStopJoin(c)

----------------------------------------------------------------------------
(* AdaptiveBuffer under concurrent callers (buffer.rs): push, pop and
   metrics() with the locks they take. data is behind a tokio RwLock and
   metrics behind a tokio Mutex; a call moves from one lock acquisition to the
   next. A read guard is taken and dropped within one step, so the RwLock is
   recorded by its writer alone. *)

LockCallers == 1..NumLockCallers

\* a call in progress: the method, its argument and the lock it waits for next
LockCall(op, item, pc) == [op |-> op, item |-> item, pc |-> pc]

NoLockCall == LockCall("none", 0, "idle")

\* the buffers shared by the callers: the backing buffer of a channel, and a
\* small buffer brought down to its max_size by adjust_capacity beforehand
LockedBuffers ==
    {ChannelBufferNew(capacity) : capacity \in ChannelCapacities}
    \cup {AdjustCapacity(AdaptiveBufferNew(0, max_size), Ratio(90, 100)).buf :
             max_size \in 1..MaxMaxSize}

LkInit ==
    /\ lkBuf \in LockedBuffers
    /\ lkData = 0
    /\ lkMetrics = 0
    /\ lkCalls = [c \in LockCallers |-> NoLockCall]
    /\ lkDone = 0

\* caller c calls push(item), pop() or metrics(): push and pop begin with
\* data.write().await, metrics() with metrics.lock().await
LkCall(c, op, item) ==
    /\ lkCalls[c].pc = "idle"
    /\ lkDone + Cardinality({d \in LockCallers : lkCalls[d].pc # "idle"}) < MaxLockCalls
    /\ lkCalls' = [lkCalls EXCEPT ![c] =
                      LockCall(op, item, IF op = "metrics" THEN "lock" ELSE "write")]
    /\ UNCHANGED <<lkBuf, lkData, lkMetrics, lkDone>>
    /\ UNCHANGED <<bufVars, chVars, pkVars, ehVars, svVars, cmVars, vdVars, asVars,
                   csVars, rcVars, rgVars>>

\* the rest of a push or pop once no further lock has to be waited for: the
\* call returns and drops the write guard, or never returns because
\* resize_buffer waits for the write lock its own caller holds
LkFinish(c, r) ==
    /\ lkBuf' = r.buf
    /\ IF r.res = "Hang"
       THEN /\ lkData' = c
            /\ lkCalls' = [lkCalls EXCEPT ![c].pc = "stuck"]
            /\ UNCHANGED lkDone
       ELSE /\ lkData' = 0
            /\ lkCalls' = [lkCalls EXCEPT ![c] = NoLockCall]
            /\ lkDone' = lkDone + 1

\* push will count an overflow event, for which it locks metrics a second time
CountsOverflow(b) ==
    /\ Len(b.data) >= b.current_capacity
    /\ b.overflow_strategy = "DropOldest"
    /\ b.data # << >>

\* push: data.write().await is granted
LkPushWrite(c) ==
    /\ lkCalls[c].op = "push" /\ lkCalls[c].pc = "write"
    /\ lkData = 0
    /\ lkData' = c
    /\ lkCalls' = [lkCalls EXCEPT ![c].pc = "metrics"]
    /\ UNCHANGED <<lkBuf, lkMetrics, lkDone>>
    /\ UNCHANGED <<bufVars, chVars, pkVars, ehVars, svVars, cmVars, vdVars, asVars,
                   csVars, rcVars, rgVars>>

\* push: metrics.lock().await is granted while the write guard is held; the
\* metrics are updated and the mutex is released
LkPushMetrics(c) ==
    /\ lkCalls[c].op = "push" /\ lkCalls[c].pc = "metrics"
    /\ lkMetrics = 0
    /\ IF CountsOverflow(lkBuf)
       THEN /\ lkCalls' = [lkCalls EXCEPT ![c].pc = "overflow"]
            /\ UNCHANGED <<lkBuf, lkData, lkDone>>
       ELSE \E r \in {Push(lkBuf, lkCalls[c].item)} : LkFinish(c, r)
    /\ UNCHANGED lkMetrics
    /\ UNCHANGED <<bufVars, chVars, pkVars, ehVars, svVars, cmVars, vdVars, asVars,
                   csVars, rcVars, rgVars>>

\* push: the second metrics.lock().await, for total_overflow_events
LkPushOverflow(c) ==
    /\ lkCalls[c].op = "push" /\ lkCalls[c].pc = "overflow"
    /\ lkMetrics = 0
    /\ \E r \in {Push(lkBuf, lkCalls[c].item)} : LkFinish(c, r)
    /\ UNCHANGED lkMetrics
    /\ UNCHANGED <<bufVars, chVars, pkVars, ehVars, svVars, cmVars, vdVars, asVars,
                   csVars, rcVars, rgVars>>

\* pop: data.write().await is granted; pop takes no other lock
LkPop(c) ==
    /\ lkCalls[c].op = "pop" /\ lkCalls[c].pc = "write"
    /\ lkData = 0
    /\ \E r \in {Pop(lkBuf)} : LkFinish(c, r)
    /\ UNCHANGED lkMetrics
    /\ UNCHANGED <<bufVars, chVars, pkVars, ehVars, svVars, cmVars, vdVars, asVars,
                   csVars, rcVars, rgVars>>

\* metrics(): metrics.lock().await is granted
LkMetricsLock(c) ==
    /\ lkCalls[c].op = "metrics" /\ lkCalls[c].pc = "lock"
    /\ lkMetrics = 0
    /\ lkMetrics' = c
    /\ lkCalls' = [lkCalls EXCEPT ![c].pc = "utilization"]
    /\ UNCHANGED <<lkBuf, lkData, lkDone>>
    /\ UNCHANGED <<bufVars, chVars, pkVars, ehVars, svVars, cmVars, vdVars, asVars,
                   csVars, rcVars, rgVars>>

\* metrics(): utilization() is granted data.read().await while the metrics
\* guard is held; the call returns and drops both guards
LkMetricsRead(c) ==
    /\ lkCalls[c].op = "metrics" /\ lkCalls[c].pc = "utilization"
    /\ lkData = 0
    /\ lkMetrics' = 0
    /\ lkCalls' = [lkCalls EXCEPT ![c] = NoLockCall]
    /\ lkDone' = lkDone + 1
    /\ UNCHANGED <<lkBuf, lkData>>
    /\ UNCHANGED <<bufVars, chVars, pkVars, ehVars, svVars, cmVars, vdVars, asVars,
                   csVars, rcVars, rgVars>>

LkNext ==
    \/ \E c \in LockCallers : \E item \in Items : LkCall(c, "push", item)
    \/ \E c \in LockCallers : LkCall(c, "pop", 0)
    \/ \E c \in LockCallers : LkCall(c, "metrics", 0)
    \/ \E c \in LockCallers : LkPushWrite(c)
    \/ \E c \in LockCallers : LkPushMetrics(c)
    \/ \E c \in LockCallers : LkPushOverflow(c)
    \/ \E c \in LockCallers : LkPop(c)
    \/ \E c \in LockCallers : LkMetricsLock(c)
    \/ \E c \in LockCallers : LkMetricsRead(c)

----------------------------------------------------------------------------
(* StreamingTranscriptionContextManager::start called by several tasks at
   once (context_manager.rs). start takes &self and holds no lock across its
   steps, so the calls interleave between the is_active check, the model
   load, the spawn under the processing_tasks lock and the is_active store. *)

StartCallers == 1..NumStartCallers

\* a call of start() by one caller: where it stands, whether it has spawned
\* tasks, what it returned and the is_active its get_status has read
StartCall(pc, spawned, result, status_active) ==
    [pc |-> pc, spawned |-> spawned, result |-> result, status_active |-> status_active]

CsIdle == csCalls = << >> /\ csLog = << >>

CsInit ==
    /\ csCalls = [c \in StartCallers |-> StartCall("idle", FALSE, "", FALSE)]
    /\ csLog = << >>

CsReturn(c, result) ==
    /\ csCalls' = [csCalls EXCEPT ![c].pc = "returned", ![c].result = result]
    /\ csLog' = Append(csLog, [caller |-> c, res |-> result])

\* start(): the is_active check; an active manager refuses
CsStartCheck(c) ==
    /\ csCalls[c].pc = "idle"
    /\ IF cmActive
       THEN CsReturn(c, "AlreadyActive")
       ELSE /\ csCalls' = [csCalls EXCEPT ![c].pc = "checked"]
            /\ UNCHANGED csLog
    /\ UNCHANGED cmVars
    /\ UNCHANGED <<bufVars, chVars, pkVars, ehVars, svVars, vdVars, asVars,
                   lkVars, rcVars, rgVars>>

\* start(): ensure_model_loaded
CsEnsureModel(c, found) ==
    /\ csCalls[c].pc = "checked"
    /\ cmModel # "" => found
    /\ IF cmModel # ""
       THEN /\ csCalls' = [csCalls EXCEPT ![c].pc = "loaded"]
            /\ UNCHANGED <<cmModel, cmEvents, csLog>>
       ELSE IF found
       THEN /\ csCalls' = [csCalls EXCEPT ![c].pc = "loaded"]
            /\ cmModel' = PreferredModel
            /\ cmEvents' = Append(cmEvents, ModelChanged(cmModel, PreferredModel))
            /\ UNCHANGED csLog
       ELSE /\ CsReturn(c, "NoModel")
            /\ UNCHANGED <<cmModel, cmEvents>>
    /\ UNCHANGED <<cmActive, cmTasks, cmStart, cmStop, cmCalls, cmChange, cmSeq, cmQuiet, cmHeld>>
    /\ UNCHANGED <<bufVars, chVars, pkVars, ehVars, svVars, vdVars, asVars,
                   lkVars, rcVars, rgVars>>

\* start(): start_processing_pipeline spawns the two tasks under the lock of
\* processing_tasks and pushes their handles
CsSpawn(c) ==
    /\ csCalls[c].pc = "loaded"
    /\ cmTasks' = cmTasks \o <<Task("microphone", "spawned", TRUE, << >>, 0),
                               Task("speaker", "spawned", TRUE, << >>, 0)>>
    /\ csCalls' = [csCalls EXCEPT ![c].pc = "spawned", ![c].spawned = TRUE]
    /\ UNCHANGED csLog
    /\ UNCHANGED <<cmActive, cmModel, cmStart, cmStop, cmCalls, cmChange, cmSeq, cmEvents,
                   cmQuiet, cmHeld>>
    /\ UNCHANGED <<bufVars, chVars, pkVars, ehVars, svVars, vdVars, asVars,
                   lkVars, rcVars, rgVars>>

\* start(): is_active.store(true) and the reads of get_status
CsStore(c) ==
    /\ csCalls[c].pc = "spawned"
    /\ cmActive' = TRUE
    /\ csCalls' = [csCalls EXCEPT ![c].pc = "status", ![c].status_active = TRUE]
    /\ UNCHANGED csLog
    /\ UNCHANGED <<cmModel, cmTasks, cmStart, cmStop, cmCalls, cmChange, cmSeq, cmEvents,
                   cmQuiet, cmHeld>>
    /\ UNCHANGED <<bufVars, chVars, pkVars, ehVars, svVars, vdVars, asVars,
                   lkVars, rcVars, rgVars>>

\* start(): the StatusUpdate event and the return
CsEmit(c) ==
    /\ csCalls[c].pc = "status"
    /\ cmEvents' = Append(cmEvents, StatusUpdate(csCalls[c].status_active))
    /\ CsReturn(c, "Ok")
    /\ UNCHANGED <<cmActive, cmModel, cmTasks, cmStart, cmStop, cmCalls, cmChange, cmSeq,
                   cmQuiet, cmHeld>>
    /\ UNCHANGED <<bufVars, chVars, pkVars, ehVars, svVars, vdVars, asVars,
                   lkVars, rcVars, rgVars>>

\* the concurrent calls of start() and the tasks they spawn
CsNext ==
    \/ \E c \in StartCallers : CsStartCheck(c)
    \/ \E c \in StartCallers : \E found \in BOOLEAN : CsEnsureModel(c, found)
    \/ \E c \in StartCallers : CsSpawn(c)
    \/ \E c \in StartCallers : CsStore(c)
    \/ \E c \in StartCallers : CsEmit(c)
    \/ \E t \in 1..Len(cmTasks) : TaskRun(t)

----------------------------------------------------------------------------
(* ManagedChannel under concurrent callers (channel.rs): close() and
   initiate_recovery() step by step. close holds the sender lock from its
   first statement to its return; initiate_recovery writes the state, takes
   the sender lock only to replace the sender, and writes the state again
   after releasing it. send and subscribe hold the sender lock throughout and
   are taken as one step each. *)

RaceCallers == 1..NumRaceCallers

\* a call of close() or initiate_recovery() in progress and its next statement
RaceCall(op, pc) == [op |-> op, pc |-> pc]

NoRaceCall == RaceCall("none", "idle")

RcIdle == rcCalls = << >>

RcInit == rcCalls = [c \in RaceCallers |-> NoRaceCall]

\* close(): self.sender.lock().await is granted and the sender is taken out
RcCloseLock(c) ==
    /\ rcCalls[c].pc = "idle"
    /\ chSenderLock = "free"
    /\ chSenderLock' = "held"
    /\ chSender' = 0
    /\ rcCalls' = [rcCalls EXCEPT ![c] = RaceCall("close", "state")]
    /\ UNCHANGED <<chState, chHealth, chBuf, chReceivers, chNow, chLast, chCloseReturned,
                   chSends>>
    /\ UNCHANGED <<bufVars, pkVars, ehVars, svVars, cmVars, vdVars, asVars,
                   lkVars, csVars, rgVars>>

\* close(): the state is written and the call returns, dropping the guard
RcCloseState(c) ==
    /\ rcCalls[c] = RaceCall("close", "state")
    /\ chState' = "Closed"
    /\ chSenderLock' = "free"
    /\ chLast' = Call("close", 0, "Ok")
    /\ chCloseReturned' = TRUE
    /\ rcCalls' = [rcCalls EXCEPT ![c] = NoRaceCall]
    /\ UNCHANGED <<chSender, chHealth, chBuf, chReceivers, chNow, chSends>>
    /\ UNCHANGED <<bufVars, pkVars, ehVars, svVars, cmVars, vdVars, asVars,
                   lkVars, csVars, rgVars>>

\* initiate_recovery(): the should_attempt_recovery check, the attempt is
\* recorded and the state set to Recovering
RcRecoveryBegin(c) ==
    /\ rcCalls[c].pc = "idle"
    /\ chLast # Call("initiate_recovery", 0, "Err")
    /\ IF ~ShouldAttemptRecovery(chHealth, chNow)
       THEN /\ chLast' = Call("initiate_recovery", 0, "Err")
            /\ UNCHANGED <<chState, chHealth, rcCalls>>
       ELSE /\ chHealth' = RecordRecoveryAttempt(chHealth, chNow)
            /\ chState' = "Recovering"
            /\ rcCalls' = [rcCalls EXCEPT ![c] = RaceCall("initiate_recovery", "replace")]
            /\ UNCHANGED chLast
    /\ UNCHANGED <<chSender, chSenderLock, chBuf, chReceivers, chNow, chCloseReturned,
                   chSends>>
    /\ UNCHANGED <<bufVars, pkVars, ehVars, svVars, cmVars, vdVars, asVars,
                   lkVars, csVars, rgVars>>

\* initiate_recovery(): the sender lock is granted, the new sender is put in
\* and the guard is dropped
RcRecoveryReplace(c) ==
    /\ rcCalls[c] = RaceCall("initiate_recovery", "replace")
    /\ chSenderLock = "free"
    /\ chSender' = chHealth.recovery_attempts + 1
    /\ rcCalls' = [rcCalls EXCEPT ![c].pc = "state"]
    /\ UNCHANGED <<chSenderLock, chState, chHealth, chBuf, chReceivers, chNow, chLast,
                   chCloseReturned, chSends>>
    /\ UNCHANGED <<bufVars, pkVars, ehVars, svVars, cmVars, vdVars, asVars,
                   lkVars, csVars, rgVars>>

\* initiate_recovery(): the state is set to Active and the call returns
RcRecoveryState(c) ==
    /\ rcCalls[c] = RaceCall("initiate_recovery", "state")
    /\ chState' = "Active"
    /\ chLast' = Call("initiate_recovery", 0, "Ok")
    /\ rcCalls' = [rcCalls EXCEPT ![c] = NoRaceCall]
    /\ UNCHANGED <<chSender, chSenderLock, chHealth, chBuf, chReceivers, chNow,
                   chCloseReturned, chSends>>
    /\ UNCHANGED <<bufVars, pkVars, ehVars, svVars, cmVars, vdVars, asVars,
                   lkVars, csVars, rgVars>>

RcNext ==
    \/ \E c \in RaceCallers : RcCloseLock(c)
    \/ \E c \in RaceCallers : RcCloseState(c)
    \/ \E c \in RaceCallers : RcRecoveryBegin(c)
    \/ \E c \in RaceCallers : RcRecoveryReplace(c)
    \/ \E c \in RaceCallers : RcRecoveryState(c)
    \/ \E item \in ChannelItems : ChSend(item)
    \/ ChSubscribe
    \/ ChTick

----------------------------------------------------------------------------
(* The audio context ring of the transcription service (streaming_whisper.rs
   ContextManager): a VecDeque<f32> in its storage. data is what the deque
   holds, front first; capacity is the length of its storage and head the
   slot of the front element, as std's VecDeque keeps them: the deque wraps
   around the end of the storage, and as_slices() yields the run from head to
   the end of the storage and then the run from slot 0. *)

\* VecDeque::with_capacity(capacity)
VecDequeNew(capacity) == [capacity |-> capacity, head |-> 0, data |-> << >>]

\* RawVec::grow_amortized for one more element: twice the capacity, four
\* elements at least
GrownCapacity(capacity) == Max2(Max2(capacity * 2, capacity + 1), 4)

\* VecDeque::grow on a full deque: the storage is reallocated and
\* handle_capacity_increase moves the shorter run
VecDequeGrow(dq) ==
    LET old_capacity == dq.capacity
        new_capacity == GrownCapacity(old_capacity)
        len == Len(dq.data)
        head_len == old_capacity - dq.head
        tail_len == len - head_len
    IN IF dq.head <= old_capacity - len
       THEN [dq EXCEPT !.capacity = new_capacity]
       ELSE IF head_len > tail_len /\ new_capacity - old_capacity >= tail_len
       THEN [dq EXCEPT !.capacity = new_capacity]
       ELSE [dq EXCEPT !.capacity = new_capacity, !.head = new_capacity - head_len]

\* VecDeque::push_back
PushBack(dq, value) ==
    LET room == IF Len(dq.data) = dq.capacity THEN VecDequeGrow(dq) ELSE dq
    IN [room EXCEPT !.data = Append(@, value)]

\* VecDeque::pop_front on a deque that is not empty
PopFront(dq) ==
    [dq EXCEPT !.head = (@ + 1) % dq.capacity, !.data = Tail(@)]

\* VecDeque::as_slices
AsSlices(dq) ==
    LET first_len == Min2(Len(dq.data), dq.capacity - dq.head)
    IN <<SubSeq(dq.data, 1, first_len), SubSeq(dq.data, first_len + 1, Len(dq.data))>>

\* ContextManager::new
RingNew(max_context_samples, overlap_samples) ==
    [context_buffer |-> VecDequeNew(max_context_samples),
     max_context_samples |-> max_context_samples,
     overlap_samples |-> overlap_samples]

RECURSIVE PushAll(_, _)
PushAll(dq, samples) ==
    IF samples = << >> THEN dq ELSE PushAll(PushBack(dq, Head(samples)), Tail(samples))

RECURSIVE TrimFront(_, _)
TrimFront(dq, max_len) ==
    IF Len(dq.data) > max_len THEN TrimFront(PopFront(dq), max_len) ELSE dq

\* ContextManager::add_audio_context
RingAddAudioContext(ring, samples) ==
    [ring EXCEPT !.context_buffer =
        TrimFront(PushAll(@, samples), ring.max_context_samples)]

\* &slice[start..] and slice.get(start..), on a start within the slice
SliceFrom(slice, start) == SubSeq(slice, start + 1, Len(slice))

\* ContextManager::get_audio_context: the audio built, or a panic on the
\* slice index
GetAudioContext(ring, new_samples) ==
    LET dq == ring.context_buffer
        len == Len(dq.data)
        overlap_start == IF len > ring.overlap_samples THEN len - ring.overlap_samples ELSE 0
        slices == AsSlices(dq)
    IN IF dq.data = << >>
       THEN [res |-> "Ok", audio |-> new_samples]
       ELSE IF overlap_start > Len(slices[1])
       THEN [res |-> "Panic", audio |-> << >>]
       ELSE [res |-> "Ok",
             audio |-> SliceFrom(slices[1], overlap_start)
                          \o (IF overlap_start <= Len(slices[2])
                              THEN SliceFrom(slices[2], overlap_start)
                              ELSE << >>)
                          \o new_samples]

\* the samples of the next chunk of n samples, numbered on from those seen
RingChunk(seen, n) == [i \in 1..n |-> seen + i]

\* the latest call on the ring: the calls made so far, the samples seen, and
\* for get_audio_context what the ring held, the chunk and the outcome
RingCall(calls, seen, op, held, chunk, out) ==
    [calls |-> calls, seen |-> seen, op |-> op, held |-> held, chunk |-> chunk,
     res |-> out.res, audio |-> out.audio]

NoRingCall == RingCall(0, 0, "new", << >>, << >>, [res |-> "Ok", audio |-> << >>])

RgIdle == rgRing = RingNew(0, 0) /\ rgLast = NoRingCall

RgInit ==
    /\ \E max_context_samples \in 2..MaxRingSamples :
       \E overlap_samples \in 1..MaxRingOverlap :
          rgRing = RingNew(max_context_samples, overlap_samples)
    /\ rgLast = NoRingCall

\* transcribe_chunk hands the ring content and a chunk of n samples to the engine
RgGetAudioContext(n) ==
    /\ rgLast.calls < MaxRingCalls
    /\ \E chunk \in {RingChunk(rgLast.seen, n)} :
          rgLast' = RingCall(rgLast.calls + 1, rgLast.seen, "get_audio_context",
                             rgRing.context_buffer.data, chunk,
                             GetAudioContext(rgRing, chunk))
    /\ UNCHANGED rgRing
    /\ UNCHANGED <<bufVars, chVars, pkVars, ehVars, svVars, cmVars, vdVars, asVars,
                   lkVars, csVars, rcVars>>

\* the samples of a transcribed chunk of n samples are added to the ring
RgAddAudioContext(n) ==
    /\ rgLast.calls < MaxRingCalls
    /\ \E chunk \in {RingChunk(rgLast.seen, n)} :
          /\ rgRing' = RingAddAudioContext(rgRing, chunk)
          /\ rgLast' = RingCall(rgLast.calls + 1, rgLast.seen + n, "add_audio_context",
                                rgRing.context_buffer.data, chunk,
                                [res |-> "Ok", audio |-> << >>])
    /\ UNCHANGED <<bufVars, chVars, pkVars, ehVars, svVars, cmVars, vdVars, asVars,
                   lkVars, csVars, rcVars>>

RgNext ==
    \/ \E n \in 1..MaxRingChunk : RgGetAudioContext(n)
    \/ \E n \in 1..MaxRingChunk : RgAddAudioContext(n)

----------------------------------------------------------------------------

LkIdle ==
    /\ lkBuf = AdaptiveBufferNew(0, 0)
    /\ lkData = 0
    /\ lkMetrics = 0
    /\ lkCalls = [c \in LockCallers |-> NoLockCall]
    /\ lkDone = 0

\* the components of the concurrency specifications, left idle elsewhere
RaceIdle == LkIdle /\ CsIdle /\ RcIdle /\ RgIdle

\* Each specification starts its own component in any of the configurations
\* above and leaves the other components as constructed by default.
BufIdle == buf = AdaptiveBufferNew(0, 0) /\ bufLog = << >>

ChIdle ==
    /\ chBuf = ChannelBufferNew(PipelineChannelCapacity)
    /\ chSender = 1
    /\ chSenderLock = "free"
    /\ chState = "Initializing"
    /\ chNow = ClockStart
    /\ chHealth = HealthMonitorNew(ClockStart)
    /\ chReceivers = << >>
    /\ chLast = Call("new", 0, "Ok")
    /\ chCloseReturned = FALSE
    /\ chSends = 0

InitBuffer == BufInit /\ ChIdle /\ PipeInit /\ EhInit /\ SvIdle /\ CmInit /\ VdInit /\ AsInit /\ RaceIdle

InitChannel == BufIdle /\ ChInit /\ PipeInit /\ EhInit /\ SvIdle /\ CmInit /\ VdInit /\ AsInit /\ RaceIdle

InitPipeline == BufIdle /\ ChIdle /\ PipeInit /\ EhInit /\ SvIdle /\ CmInit /\ VdInit /\ AsInit /\ RaceIdle

InitErrorHandler == BufIdle /\ ChIdle /\ PipeInit /\ EhInit /\ SvIdle /\ CmInit /\ VdInit /\ AsInit /\ RaceIdle

InitWhisper == BufIdle /\ ChIdle /\ PipeInit /\ EhInit /\ SvInit /\ CmInit /\ VdInit /\ AsInit /\ RaceIdle

InitManager == BufIdle /\ ChIdle /\ PipeInit /\ EhInit /\ SvIdle /\ CmInit /\ VdInit /\ AsInit /\ RaceIdle

SpecBuffer == InitBuffer /\ [][BufNext]_vars

SpecChannel == InitChannel /\ [][ChNext]_vars

InitVad == BufIdle /\ ChIdle /\ PipeInit /\ EhInit /\ SvIdle /\ CmInit /\ VdInit /\ AsInit /\ RaceIdle

SpecVad == InitVad /\ [][VdNext]_vars

InitAudioStream == BufIdle /\ ChIdle /\ PipeInit /\ EhInit /\ SvIdle /\ CmInit /\ VdInit /\ AsInit /\ RaceIdle

SpecAudioStream == InitAudioStream /\ [][AsNext]_vars

InitBufferLocks ==
    /\ BufIdle /\ ChIdle /\ PipeInit /\ EhInit /\ SvIdle /\ CmInit /\ VdInit /\ AsInit
    /\ LkInit /\ CsIdle /\ RcIdle /\ RgIdle

SpecBufferLocks == InitBufferLocks /\ [][LkNext]_vars

InitConcurrentStart ==
    /\ BufIdle /\ ChIdle /\ PipeInit /\ EhInit /\ SvIdle /\ CmInit /\ VdInit /\ AsInit
    /\ LkIdle /\ CsInit /\ RcIdle /\ RgIdle

SpecConcurrentStart == InitConcurrentStart /\ [][CsNext]_vars

InitChannelRace ==
    /\ BufIdle /\ ChInit /\ PipeInit /\ EhInit /\ SvIdle /\ CmInit /\ VdInit /\ AsInit
    /\ LkIdle /\ CsIdle /\ RcInit /\ RgIdle

SpecChannelRace == InitChannelRace /\ [][RcNext]_vars

InitContextRing ==
    /\ BufIdle /\ ChIdle /\ PipeInit /\ EhInit /\ SvIdle /\ CmInit /\ VdInit /\ AsInit
    /\ LkIdle /\ CsIdle /\ RcIdle /\ RgInit

SpecContextRing == InitContextRing /\ [][RgNext]_vars

SpecPipeline == InitPipeline /\ [][PipeNext]_vars

\* the pipelines fed with one continuous tone
SpecTone == InitPipeline /\ [][PipeToneNext]_vars

\* the pipelines fed with silence only
SpecSilence == InitPipeline /\ [][PipeSilenceNext]_vars

\* the chunker under every report of the VAD
SpecPolicy == InitPipeline /\ [][PipePolicyNext]_vars

SpecErrorHandler == InitErrorHandler /\ [][EhNext]_vars

SpecWhisper == InitWhisper /\ [][SvNext]_vars

SpecManager == InitManager /\ [][CmNext]_vars

SpecRestart == InitManager /\ [][CmRestartNext]_vars

SpecChangeModel == InitManager /\ [][CmChangeNext]_vars

----------------------------------------------------------------------------
(* Claims about the AdaptiveBuffer *)

IsPrefix(s, t) == Len(s) <= Len(t) /\ \A i \in 1..Len(s) : s[i] = t[i]

\* C1: in every reachable state of an AdaptiveBuffer, len <= capacity and
\* min_size <= capacity <= max_size.
C1_CapacityInvariant ==
    /\ Len(buf.data) <= buf.current_capacity
    /\ buf.min_size <= buf.current_capacity
    /\ buf.current_capacity <= buf.max_size

\* the calls of the scenario of C4 and what each is claimed to return
DropOldestScenario ==
    << [op |-> "push", arg |-> 1, res |-> "Ok", value |-> 0],
       [op |-> "push", arg |-> 2, res |-> "Ok", value |-> 0],
       [op |-> "push", arg |-> 3, res |-> "Ok", value |-> 0],
       [op |-> "pop", arg |-> 0, res |-> "Some", value |-> 2],
       [op |-> "pop", arg |-> 0, res |-> "Some", value |-> 3] >>

Calls(log) == [i \in 1..Len(log) |-> [op |-> log[i].op, arg |-> log[i].arg]]

\* C4: on a DropOldest buffer built with min = 2, max = 2 the calls push 1,
\* push 2, push 3, pop, pop all return, the third push drops exactly the head
\* (the pops return 2 then 3) and overflow_events ends at 1.
C4_DropOldestScenario ==
    ( /\ buf.min_size = 2 /\ buf.max_size = 2
      /\ buf.overflow_strategy = "DropOldest"
      /\ IsPrefix(Calls(bufLog), Calls(DropOldestScenario)) )
    => /\ IsPrefix(bufLog, DropOldestScenario)
       /\ Len(bufLog) >= 3 =>
             /\ buf.metrics.total_overflow_events = 1
             /\ Len(buf.data) = 5 - Len(bufLog)

\* a push is made on a full Expand buffer whose capacity is below max_size
ExpandingPush ==
    /\ Len(bufLog') = Len(bufLog) + 1
    /\ bufLog'[Len(bufLog')].op = "push"
    /\ buf.overflow_strategy = "Expand"
    /\ Len(buf.data) >= buf.current_capacity
    /\ buf.current_capacity < buf.max_size

\* the three pushes of test_buffer_expansion have been called
ExpansionTestDone ==
    /\ buf.min_size = ExpansionTestMinSize /\ buf.max_size = ExpansionTestMaxSize
    /\ buf.overflow_strategy = "Expand"
    /\ Calls(bufLog) = [i \in 1..3 |-> [op |-> "push", arg |-> i]]

\* C25: a push into a full Expand buffer whose capacity is below max_size
\* returns Ok, doubles the capacity up to max_size and keeps every item; the
\* Expand buffer built with min = 2 and max = 10 holds 3 items with a
\* capacity above 2 after three pushes.
C25_ExpandKeepsItems ==
    /\ [][ExpandingPush =>
             /\ bufLog'[Len(bufLog')].res = "Ok"
             /\ buf'.current_capacity >= Min2(2 * buf.current_capacity, buf.max_size)
             /\ buf'.data = Append(buf.data, bufLog'[Len(bufLog')].arg)]_vars
    /\ [](ExpansionTestDone =>
             /\ \A i \in 1..3 : bufLog[i].res = "Ok"
             /\ Len(buf.data) = 3
             /\ buf.current_capacity > 2)

\* C28: every push and every pop made by a single caller returns: none waits
\* for the data lock while holding it.
C28_PushAndPopReturn ==
    \A i \in 1..Len(bufLog) :
        bufLog[i].op \in {"push", "pop"} => bufLog[i].res # "Hang"

----------------------------------------------------------------------------
(* Claims about the ManagedChannel *)

\* a step in which send() is called
SendStep == chSends' = chSends + 1

\* a step in which initiate_recovery() is called
RecoveryStep ==
    /\ chLast'.op = "initiate_recovery"
    /\ <<chLast, chHealth>>' # <<chLast, chHealth>>

\* a sender on which broadcast fails: taken away, or without a live receiver
SenderBroken == chSender = 0 \/ ~HasReceivers(chSender)

\* C2: Closed is terminal: once the state is Closed no later operation
\* (send, subscribe, initiate_recovery, close) changes it.
C2_ClosedIsTerminal == [][chState = "Closed" => chState' = "Closed"]_vars

\* C3: after close() has returned every later send() returns an error and
\* its item reaches neither a subscriber nor the backing buffer.
C3_SendAfterCloseRejected ==
    [][(chCloseReturned /\ SendStep) =>
          /\ chLast'.res = "Err"
          /\ chReceivers' = chReceivers
          /\ chBuf'.data = chBuf.data]_vars

\* C5: a receiver that subscribed while the backing buffer held items sent
\* without subscribers, and that has drained what it can receive, has
\* received those buffered items in insertion order.
C5_BufferedItemsDelivered ==
    \A i \in 1..Len(chReceivers) :
        chReceivers[i].drained =>
            IsPrefix(chReceivers[i].buffered_at_subscribe, chReceivers[i].got)

\* C6: with at least 2 s since the last recovery attempt initiate_recovery()
\* on a channel with a broken sender returns Ok and leaves the state Active;
\* the send() that follows returns Ok and the channel then reports healthy.
C6_RecoveryThenSend ==
    [][/\ (RecoveryStep /\ SenderBroken
             /\ chNow - chHealth.last_recovery_attempt >= 2 * BackoffUnitMs)
          => (chLast'.res = "Ok" /\ chState' = "Active")
       /\ (SendStep /\ chLast = Call("initiate_recovery", 0, "Ok"))
          => (chLast'.res = "Ok" /\ chHealth'.is_healthy)]_vars

\* the backoff policy as the claim C7 words it
ClaimedRecoveryAllowed ==
    /\ chHealth.recovery_attempts <= MaxRecoveryAttempts
    /\ chNow - chHealth.last_recovery_attempt >= BackoffDuration(chHealth.recovery_attempts)

\* C7: initiate_recovery() changes neither state, sender nor recovery_attempts
\* unless recovery_attempts <= 10 and at least 2^min(recovery_attempts,10) s
\* have passed since the last attempt; when both hold it installs a new
\* sender, leaves the health flag set, adds one to recovery_attempts and ends
\* in state Active.
C7_RecoveryBackoff ==
    [][RecoveryStep =>
          IF ClaimedRecoveryAllowed
          THEN /\ chSender' \notin {0, chSender}
               /\ chHealth'.is_healthy
               /\ chHealth'.recovery_attempts = chHealth.recovery_attempts + 1
               /\ chState' = "Active"
          ELSE /\ chState' = chState
               /\ chSender' = chSender
               /\ chHealth'.recovery_attempts = chHealth.recovery_attempts]_vars

\* receiver i was handed out by subscribe() before the latest recovery, which
\* succeeded, and its owner still holds it
HeldSinceBeforeRecovery(i) ==
    /\ chReceivers[i].alive
    /\ chSender > 1
    /\ chReceivers[i].sender < chSender

\* C30: after a successful initiate_recovery() the receivers obtained from
\* subscribe() before the recovery receive the items sent afterwards.
C30_RecoveredChannelFeedsReceivers ==
    [][SendStep =>
          \A i \in 1..Len(chReceivers) :
              HeldSinceBeforeRecovery(i) =>
                  chReceivers'[i].queue = Append(chReceivers[i].queue, chLast'.arg)]_vars

----------------------------------------------------------------------------
(* Claims about the chunks of the two source pipelines *)

\* chunks i and j were handed to the same source's task, j the next after i
ConsecutiveOfSource(i, j) ==
    /\ i < j
    /\ pkEmitted[i].source = pkEmitted[j].source
    /\ \A k \in (i + 1)..(j - 1) : pkEmitted[k].source # pkEmitted[i].source

\* the first n elements of s (all of s when it is shorter)
FirstN(s, n) == SubSeq(s, 1, Min2(n, Len(s)))

\* C8: with both source pipelines running, each chunk of a source has the id
\* of that source's previous chunk plus one.
C8_ConsecutiveIdsPerSource ==
    \A i, j \in 1..Len(pkEmitted) :
        ConsecutiveOfSource(i, j) =>
            pkEmitted[j].chunk.chunk_id = pkEmitted[i].chunk.chunk_id + 1

\* C9: every emitted chunk whose boundary is not a manual one has
\* min_chunk_ms <= duration_ms <= max_chunk_ms, whatever the sizes and
\* arrival times of the batches.
C9_DurationWithinBounds ==
    \A i \in 1..Len(pkEmitted) :
        pkEmitted[i].chunk.boundary_type # "ManualBoundary" =>
            /\ MinChunkMs <= pkEmitted[i].chunk.duration_ms
            /\ pkEmitted[i].chunk.duration_ms <= MaxChunkMs

\* C10: with overlap enabled, the leading overlap_samples samples of a chunk
\* are the last overlap_samples samples of the previous chunk of its source.
C10_OverlapIsTailOfPrevious ==
    OverlapDurationMs > 0 =>
        \A i, j \in 1..Len(pkEmitted) :
            ConsecutiveOfSource(i, j) =>
                FirstN(pkEmitted[j].chunk.samples, OverlapSamples)
                    = LastN(pkEmitted[i].chunk.samples, OverlapSamples)

\* the samples of s come from one source
OneSource(s) == \A i, j \in 1..Len(s) : s[i].src = s[j].src

\* C14: chunker state is single-writer per source: samples received on the
\* microphone channel and samples received on the loopback channel never
\* enter the same chunk accumulator, the same chunk or the same context ring.
C14_SingleWriterPerSource ==
    /\ OneSource(pkChunker.current_chunk)
    /\ OneSource(pkChunker.context_buffer)
    /\ \A i \in 1..Len(pkEmitted) : OneSource(pkEmitted[i].chunk.samples)

\* C23: fed with one continuous tone (never silent) for longer than
\* max_chunk_ms, the chunker produces chunks whose duration is max_chunk_ms
\* and whose boundary is the maximum-duration one.
C23_ToneCutAtMaxDuration ==
    \A i \in 1..Len(pkEmitted) :
        /\ pkEmitted[i].chunk.duration_ms = MaxChunkMs
        /\ pkEmitted[i].chunk.boundary_type = "MaxDurationBoundary"

\* C24: fed with silence only, for any length of time, the chunker produces
\* no chunk.
C24_SilenceMakesNoChunk == pkEmitted = << >>

----------------------------------------------------------------------------
(* Claims about the StreamingWhisperService *)

\* C15: for each failure of a pipeline stage (here: a chunk whose
\* transcription fails, an ASR timeout) handle_error is invoked exactly once.
C15_HandledOncePerFailure ==
    \A i \in 1..Len(svLast.log) :
        svLast.log[i].outcome # "Ok" => svLast.log[i].handled = 1

\* temp(n) = min(base + n * step, max), in hundredths
ClaimedTemperature(n) ==
    LET t == svConfig.base_temperature + n * svConfig.temperature_increment
    IN IF t <= svConfig.max_temperature THEN t ELSE svConfig.max_temperature

\* the engine of the latest batch fails below 0.4 and succeeds from 0.4 on
RiggedEngine ==
    \A n \in DOMAIN svLast.engine : svLast.engine[n].ok <=> ClaimedTemperature(n) >= 40

\* the service has base 0.0, step 0.2, max 0.6 and allows two retries
ExampleConfig ==
    /\ svConfig.base_temperature = 0
    /\ svConfig.temperature_increment = 20
    /\ svConfig.max_temperature = 60
    /\ svConfig.max_retries >= 2

\* C17: attempt n of transcribe_chunk uses temp(n) = min(base + n*step, max);
\* a result that first succeeds on attempt n carries retry_count = n and
\* temperature_used = temp(n); with base 0.0, step 0.2, max 0.6 and an engine
\* that succeeds only at temperature >= 0.4 the result has retry_count = 2
\* and temperature_used = 0.4.
C17_TemperatureSchedule ==
    \A i \in 1..Len(svLast.log) :
        LET entry == svLast.log[i]
            attempts == Len(entry.temperatures)
        IN /\ \A k \in 1..attempts : entry.temperatures[k] = ClaimedTemperature(k - 1)
           /\ entry.outcome = "Ok" =>
                  /\ entry.retry_count = attempts - 1
                  /\ entry.temperature_used = ClaimedTemperature(attempts - 1)
                  /\ \E r \in 1..Len(svLast.results) :
                        /\ svLast.results[r].text = entry.chunk_id
                        /\ svLast.results[r].retry_count = entry.retry_count
                        /\ svLast.results[r].temperature_used = entry.temperature_used
           /\ svLast.ready /\ ExampleConfig /\ RiggedEngine /\ entry.outcome # "Timeout" =>
                  /\ entry.outcome = "Ok"
                  /\ entry.retry_count = 2
                  /\ entry.temperature_used = 40

\* the rigged engine gave a result on the third attempt
C17_Witness ==
    /\ svLast.ready /\ ExampleConfig /\ RiggedEngine
    /\ Len(svLast.results) = 1
    /\ svLast.results[1].retry_count = 2
    /\ svLast.results[1].temperature_used = 40

\* an attempt was made at the capped temperature
C17_CapReached ==
    \E i \in 1..Len(svLast.log) : \E k \in 1..Len(svLast.log[i].temperatures) :
        svConfig.base_temperature + (k - 1) * svConfig.temperature_increment
            > svConfig.max_temperature

----------------------------------------------------------------------------
(* Claims about the ErrorHandler *)

\* caller c takes the step of handle_error that resolves the action
ResolveStep(c) == ehCalls[c].pc = "fetched" /\ ehCalls'[c].pc = "returned"

\* caller c takes the step of handle_error that looks the strategy up
LookupStep(c) == ehCalls[c].pc = "counted" /\ ehCalls'[c].pc = "fetched"

\* C18: under a strategy Retry{max_attempts, base_delay_ms}, an error handled
\* when the component's error count (the error being handled included) is
\* count gets Retry with delay base_delay_ms * 2^min(count,10) while count
\* does not exceed max_attempts, and Escalate once it does.
C18_RetryDelayAndEscalation ==
    [][\A c \in Callers :
          ResolveStep(c) /\ ehCalls[c].strategy.kind = "Retry" =>
              LET count == ehHandler.error_counts[ehCalls[c].component]
                  max_attempts == ehCalls[c].strategy.max_attempts
                  base_delay_ms == ehCalls[c].strategy.base_delay_ms
                  exponent == IF count <= 10 THEN count ELSE 10
              IN IF count <= max_attempts
                 THEN /\ ehCalls'[c].action.kind = "Retry"
                      /\ ehCalls'[c].action.delay_ms = base_delay_ms * (2 ^ exponent)
                 ELSE ehCalls'[c].action.kind = "Escalate"]_vars

\* an error count above 10 was answered with Retry: the exponent is capped
C18_Witness ==
    \E c \in Callers :
        /\ ehCalls[c].pc = "returned"
        /\ ehCalls[c].action.kind = "Retry"
        /\ ehCalls[c].action.attempt > 10
        /\ ehCalls[c].action.delay_ms = ehCalls[c].strategy.base_delay_ms * 1024

\* the default table of the claim
ClaimedDefaultStrategy(name) ==
    CASE name = "device" -> RetryStrategy(3, 1000)
      [] name = "channel" -> RetryStrategy(5, 500)
      [] name \in {"buffer", "vad"} -> GracefulStrategy(TRUE)
      [] name = "transcription" -> RetryStrategy(2, 2000)
      [] OTHER -> GracefulStrategy(FALSE)

\* the strategy the claim has in force for a component name
ClaimedStrategy(name) ==
    IF ehOverrides[name] # NoStrategy THEN ehOverrides[name]
    ELSE ClaimedDefaultStrategy(name)

\* the action is one the strategy allows
ActionOfStrategy(strategy, action) ==
    CASE strategy.kind = "Retry" -> action.kind \in {"Retry", "Escalate"}
      [] strategy.kind = "Graceful" ->
             /\ action.kind = "Continue"
             /\ action.fallback_enabled = strategy.fallback_enabled
      [] OTHER -> action.kind = strategy.kind

FirstErrorReturned(c) ==
    /\ ehHandled = 1
    /\ ehCalls[c].pc = "returned"
    /\ \A name \in ComponentNames : ehOverrides[name] = NoStrategy

\* C20: on a fresh ErrorHandler a Device error gets Retry and a Channel error
\* gets one of Retry, Backoff, Reset, Ignore, whatever the component name of
\* the error context.
C20_FreshHandlerActions ==
    \A c \in Callers :
        FirstErrorReturned(c) =>
            /\ ehCalls[c].kind = "Device" => ehCalls[c].action.kind = "Retry"
            /\ ehCalls[c].kind = "Channel" =>
                   ehCalls[c].action.kind \in {"Retry", "Backoff", "Reset", "Ignore"}

----------------------------------------------------------------------------
(* Claims about the StreamingTranscriptionContextManager *)

IsReady(e) == e.type = "TranscriptionReady"

\* an event is appended to the bus in this step, and it comes from a pipeline
\* task
TaskEventSent ==
    /\ Len(cmEvents') = Len(cmEvents) + 1
    /\ cmEvents'[Len(cmEvents')].type \in {"TranscriptionReady", "ProcessingError"}

\* C11: the TranscriptionReady events on the bus carry strictly increasing
\* sequence_ids, whichever of the two tasks sent them (so the ids are unique
\* and give the order of arrival).
C11_SequenceOrderOnBus ==
    \A i, j \in 1..Len(cmEvents) :
        (i < j /\ IsReady(cmEvents[i]) /\ IsReady(cmEvents[j])) =>
            cmEvents[i].sequence_id < cmEvents[j].sequence_id

\* C12: once stop() has sent StatusUpdate with is_active = false, no task
\* sends TranscriptionReady or ProcessingError before start() is called again.
C12_QuietAfterStop == [][cmQuiet => ~TaskEventSent]_vars

\* stop() was called on an active manager whose chunker held samples, and has
\* returned
StoppedDuringUtterance == cmHeld /\ cmCalls.stop > 0 /\ cmStop.pc = "idle"

\* C13: a stop() called while the chunker holds accumulated samples sends one
\* TranscriptionReady of the manual boundary for them, and then the
\* StatusUpdate with is_active = false as the last event.
C13_StopFlushesUtterance ==
    StoppedDuringUtterance =>
        /\ \E i \in 1..Len(cmEvents) :
              /\ IsReady(cmEvents[i])
              /\ \/ cmEvents[i].boundary_type = "ManualBoundary"
                 \/ cmEvents[i].chunk_boundary = "ManualBoundary"
        /\ cmEvents[Len(cmEvents)] = StatusUpdate(FALSE)

\* a task has received a batch in this step and the transcription of a chunk
\* of it failed at every attempt
ChunkFailed ==
    /\ pkBatches' = pkBatches + 1
    /\ \E i \in 1..Len(svLast'.log) : svLast'.log[i].outcome # "Ok"

\* C16: when the transcription of a chunk has failed at every attempt, the
\* task sends ProcessingError for its source with recoverable = true.
C16_FailedChunkReported ==
    [][ChunkFailed =>
          /\ Len(cmEvents') > Len(cmEvents)
          /\ cmEvents'[Len(cmEvents')] = ProcessingError(svLast'.source, TRUE)]_vars

\* start() has returned Ok and stop() has not been called since
Started == cmActive /\ cmStart.pc = "idle" /\ cmCalls.stop = 0

\* C29: once start() has returned Ok, both tasks are alive in their receive
\* loop until stop() is called: no task has left process_audio_stream.
C29_TasksAliveAfterStart ==
    Started =>
        /\ Len(cmTasks) = 2
        /\ \A t \in 1..Len(cmTasks) : cmTasks[t].pc \in {"spawned", "recv", "stamped"}

\* change_model() returns in this step
ChangeReturns == cmChange.pc # "idle" /\ cmChange'.pc = "idle"

\* the manager is as change_model(name) is claimed to leave it
ModelSwapped ==
    /\ cmActive' = cmChange.was_active
    /\ cmModel' = cmChange.model_name
    /\ \E i \in 1..Len(cmEvents') :
          /\ cmEvents'[i].type = "ModelChanged"
          /\ cmEvents'[i].new_model = cmChange.model_name

----------------------------------------------------------------------------
(* Claims about the StreamingVadProcessor *)

\* frame k took the VAD from Silent to Speaking
StartsSpeech(k) ==
    /\ vdOut[k].is_speaking
    /\ k = 1 \/ ~vdOut[k - 1].is_speaking

\* frame e took the VAD from Speaking to Silent
EndsSpeech(e) == e > 1 /\ vdOut[e - 1].is_speaking /\ ~vdOut[e].is_speaking

\* the frames that were fed while the VAD was Silent, right before frame k
SilentRunBefore(k) ==
    LET ends == {e \in 1..(k - 1) : EndsSpeech(e)}
        from == IF ends = {} THEN 1
                ELSE (CHOOSE e \in ends : \A f \in ends : f <= e) + 1
    IN [i \in 1..(k - from) |-> from + i - 1]

\* C21: whenever the VAD goes from Silent to Speaking, the speech emitted for
\* that frame is the most recent buffered silent frames (at most pre_pad_ms
\* worth, in their original order) followed by the triggering frame, and the
\* pre-pad ring is empty afterwards.
C21_PrePadPrefix ==
    \A k \in 1..Len(vdOut) :
        StartsSpeech(k) =>
            /\ vdOut[k].speech_segments =
                   Append(LastN(SilentRunBefore(k), PreSpeechPadMs \div VadFrameMs), k)
            /\ Len(vdOut[k].speech_segments) * VadFrameMs <= PreSpeechPadMs + VadFrameMs
            /\ vdOut[k].speech_buffer_size = 0

\* speech started after more silent frames than the pre-pad holds, and a
\* second time after an end of speech
C21_Witness ==
    \E k, l \in 1..Len(vdOut) :
        /\ k < l
        /\ StartsSpeech(k) /\ StartsSpeech(l)
        /\ Len(SilentRunBefore(k)) > PreSpeechPadMs \div VadFrameMs
        /\ Len(vdOut[k].speech_segments) > 1

\* the speech/silence and boundary decisions of a report
Decision(r) ==
    [is_speaking |-> r.is_speaking, has_pause |-> r.has_pause,
     is_complete_utterance |-> r.is_complete_utterance]

\* the stream fed since the reset() is the start of the stream fed before it
ReplaysFirstPass ==
    /\ vdFirst.some
    /\ Len(vdFed) <= Len(vdFirst.fed)
    /\ \A k \in 1..Len(vdFed) : vdFed[k] = vdFirst.fed[k]

\* C22: reset() returns the VAD to the Silent state with empty rings, and
\* feeding a stream after reset() yields the same sequence of speech/silence
\* and boundary decisions as the first pass over that stream.
C22_ResetForgetsStream ==
    /\ (vdFirst.some /\ vdFed = << >>) =>
           /\ ~vdVad.is_speaking
           /\ vdVad.speech_buffer = << >>
    /\ ReplaysFirstPass =>
           \A k \in 1..Len(vdOut) : Decision(vdOut[k]) = Decision(vdFirst.out[k])

----------------------------------------------------------------------------
(* Claims about the AudioStream *)

\* C26: calling stop() on a capture stream that has already been stopped is a
\* no-op: it returns success and changes nothing.
C26_DoubleStopIsNoOp ==
    \A i \in 1..Len(asLog) :
        asLog[i].already_stopped =>
            asLog[i].res = "Ok" /\ ~asLog[i].changed

\* the error callback has just run on a stream error
DeviceErrorStep == asStream'.device_errors = asStream.device_errors + 1

TransientErrors == {"unavailable", "timeout", "buffer"}

\* C39: every transient capture callback error (device temporarily
\* unavailable, timeout, buffer underrun/overrun) sets the disconnected flag
\* and sends a Recover request to the capture worker; a permission error does
\* neither.
C39_TransientErrorsRequestRecovery ==
    [][DeviceErrorStep =>
          /\ asStream'.last_error \in TransientErrors =>
                 /\ asStream'.is_disconnected
                 /\ asStream'.control = Append(asStream.control, "Recover")
          /\ asStream'.last_error = "permission" =>
                 /\ asStream'.is_disconnected = asStream.is_disconnected
                 /\ asStream'.control = asStream.control]_vars

\* C40: after the capture worker has successfully handled a Recover request,
\* the OS stream stays open and the worker keeps serving control requests,
\* so a later stop() returns Ok.
C40_StopAfterRecover ==
    /\ asWorker.handled = "Recover" =>
           asWorker.stream = "playing" /\ asWorker.pc = "waiting"
    /\ \A i \in 1..Len(asLog) : asLog[i].after_recover => asLog[i].res = "Ok"

----------------------------------------------------------------------------
(* Claims about the AdaptiveBuffer under concurrent callers *)

\* caller c waits for a lock that caller d holds
WaitsFor(c, d) ==
    \/ lkCalls[c].pc \in {"write", "utilization"} /\ lkData = d
    \/ lkCalls[c].pc \in {"lock", "metrics", "overflow"} /\ lkMetrics = d

\* C31: push or pop running concurrently with metrics() never deadlock: no
\* two calls ever wait for a lock the other one holds, so each can return.
C31_PushPopMetricsNeverDeadlock ==
    \A c, d \in LockCallers : c # d => ~(WaitsFor(c, d) /\ WaitsFor(d, c))

----------------------------------------------------------------------------
(* Claims about concurrent calls of start() *)

\* the tasks of a source that have not ended
LiveTasks(source) ==
    {t \in 1..Len(cmTasks) : cmTasks[t].source = source /\ cmTasks[t].pc # "done"}

\* the calls of start() that have spawned tasks
Spawners == {c \in StartCallers : csCalls[c].spawned}

\* C32: at any time at most one pipeline task per source exists: of the calls
\* of start() made concurrently at most one spawns tasks, and every other call
\* that found a model to run fails with the already-active error.
C32_OneTaskPerSource ==
    /\ \A source \in Sources : Cardinality(LiveTasks(source)) <= 1
    /\ Cardinality(Spawners) <= 1
    /\ \A c \in StartCallers :
          (Spawners # {} /\ c \notin Spawners /\ csCalls[c].pc = "returned")
              => csCalls[c].result \in {"AlreadyActive", "NoModel"}

----------------------------------------------------------------------------
(* Claims about the ManagedChannel under concurrent callers *)

\* every call made on the channel has returned
AllReturned ==
    /\ chSenderLock = "free"
    /\ \A c \in RaceCallers : rcCalls[c].pc = "idle"

\* the recorded state and the sender agree
StateMatchesSender ==
    /\ chState = "Closed" <=> chSender = 0
    /\ chState = "Active" => chSender # 0

\* C33: under every interleaving of close(), initiate_recovery() and send()
\* on one channel, once all calls have returned the state is Closed exactly
\* when the sender is absent, and Active only when a sender is present.
C33_StateAgreesWithSender == AllReturned => StateMatchesSender

----------------------------------------------------------------------------
(* Claims about the StreamingVadProcessor while speech is going on *)

\* the processor was speaking when frame k arrived
SpeakingBefore(k) == k > 1 /\ vdOut[k - 1].is_speaking

\* frames waiting in the hold-off queue when frame k arrived
HeldBefore(k) == IF SpeakingBefore(k) THEN vdOut[k - 1].speech_buffer_size ELSE 0

\* frame k was emitted as speech on arrival, the processor staying in speech
EmittedOnArrival(k) ==
    /\ vdOut[k].is_speaking
    /\ vdOut[k].speech_segments # << >>
    /\ vdOut[k].speech_segments[Len(vdOut[k].speech_segments)] = k

\* the frames emitted as speech so far, in the order of their emission
RECURSIVE EmittedUpTo(_)
EmittedUpTo(k) == IF k = 0 THEN << >> ELSE EmittedUpTo(k - 1) \o vdOut[k].speech_segments

\* C34: when a speech frame arrives during hold-off, the frames held are
\* emitted as speech at that point, ahead of the new frame, and the hold-off
\* queue becomes empty; emitted speech frames are in input order.
C34_SpeechFlushesHoldOff ==
    /\ \A k \in 1..Len(vdOut) :
          (HeldBefore(k) > 0 /\ EmittedOnArrival(k))
              => /\ Len(vdOut[k].speech_segments) = HeldBefore(k) + 1
                 /\ vdOut[k].speech_buffer_size = 0
    /\ \A i, j \in 1..Len(EmittedUpTo(Len(vdOut))) :
          i < j => EmittedUpTo(Len(vdOut))[i] < EmittedUpTo(Len(vdOut))[j]

\* every frame the processor was given since its construction: the energy
\* tracker outlives reset()
AllFed == vdFirst.fed \o vdFed

RECURSIVE TrackerAfter(_)
TrackerAfter(kinds) ==
    IF kinds = << >>
    THEN EnergyTrackerNew
    ELSE EnergyTrackerCalculate(TrackerAfter(SubSeq(kinds, 1, Len(kinds) - 1)),
                                Energy(kinds[Len(kinds)]))

\* the speech probability of frame k of the current pass is above 0.3
SpeechLikelyAt(k) ==
    LET tracker == TrackerAfter(SubSeq(AllFed, 1, Len(vdFirst.fed) + k))
    IN 10 * tracker.high_energy_count
           > 3 * (tracker.high_energy_count + tracker.low_energy_count)

\* C35: while the processor is speaking, a frame whose energy is above the
\* threshold or whose speech probability is above 0.3 keeps it speaking and is
\* emitted as speech at once; only a frame with neither goes to hold-off.
C35_EitherSignalKeepsSpeaking ==
    \A k \in 1..Len(vdOut) :
        SpeakingBefore(k) =>
            ((AboveThreshold(Energy(vdFed[k])) \/ SpeechLikelyAt(k))
                <=> EmittedOnArrival(k))

----------------------------------------------------------------------------
(* Claims about the chunker's decision policy *)

\* the outcome of the first rule of the list that matches
RECURSIVE FirstMatch(_)
FirstMatch(rules) ==
    IF Head(rules).matches THEN Head(rules).outcome ELSE FirstMatch(Tail(rules))

Rule(matches, outcome) == [matches |-> matches, outcome |-> outcome]

\* the ordered policy, on a chunk of the given duration with the given
\* trailing silence (-1 when the audio is not silent)
Policy(duration, silence, vad) ==
    FirstMatch(<<
        Rule(duration >= MaxChunkMs, "MaxDurationBoundary"),
        Rule(duration < MinChunkMs, "Continue"),
        Rule(vad.is_complete_utterance /\ vad.confidence >= BoundaryConfidenceThreshold,
             "SentenceBoundary"),
        Rule(silence >= ForceChunkOnSilenceMs, "SilenceBoundary"),
        Rule(vad.has_pause /\ duration >= (TargetChunkMs * 2) \div 3, "PauseBoundary"),
        Rule(duration >= TargetChunkMs /\ (vad.confidence > TimeoutConfidence
                                             \/ ~vad.is_speaking),
             "TimeoutBoundary"),
        Rule(TRUE, "Continue")>>)

\* how long the current chunk has been open, and how long it has been silent
ChunkAge == IF pkChunker.chunk_start_time.some THEN pkNow - pkChunker.chunk_start_time.at ELSE 0

TrailingSilence ==
    IF pkChunker.silence_start_time.some THEN pkNow - pkChunker.silence_start_time.at ELSE -1

----------------------------------------------------------------------------
(* Claims about the audio context ring *)

\* C37: whatever the ring holds, also once it has filled to
\* max_context_samples and evicted old samples, the audio handed to the engine
\* is the last min(overlap_samples, ring length) samples of the ring in order
\* followed by the samples of the chunk, and building it never fails.
C37_AudioIsRingTailThenChunk ==
    rgLast.op = "get_audio_context" =>
        /\ rgLast.res = "Ok"
        /\ rgLast.audio =
               LastN(rgLast.held, Min2(rgRing.overlap_samples, Len(rgLast.held)))
                   \o rgLast.chunk

----------------------------------------------------------------------------
(* Claims about the retry loop of transcribe_chunk *)

\* attempt k on a chunk of the latest batch fails, and the time it takes
AttemptFails(k) == ~svLast.ready \/ ~svLast.engine[k].ok

AttemptMs(k) == IF svLast.ready THEN svLast.engine[k].ms ELSE 0

\* the time elapsed since the call started once the failed attempts 0..k are
\* over, each but the last one allowed followed by the 100 ms sleep
RECURSIVE ElapsedAfter(_)
ElapsedAfter(k) ==
    (IF k = 0 THEN 0 ELSE ElapsedAfter(k - 1))
        + AttemptMs(k) + (IF k < svConfig.max_retries THEN RetrySleepMs ELSE 0)

\* C38: transcribe_chunk ends after at most max_retries + 1 engine
\* invocations: it returns the first successful result; after a failed
\* attempt it fails with Timeout as soon as the time elapsed since the call
\* started exceeds max_processing_time_ms; otherwise, when all attempts have
\* failed, it fails with the last attempt's error.
C38_RetryLoopOutcome ==
    \A i \in 1..Len(svLast.log) :
        LET entry == svLast.log[i]
            last == entry.retry_count
            timed_out(k) == ElapsedAfter(k) > svConfig.max_processing_time_ms
        IN /\ Len(entry.temperatures) = last + 1
           /\ last <= svConfig.max_retries
           /\ \A k \in 0..(last - 1) : AttemptFails(k) /\ ~timed_out(k)
           /\ entry.outcome \in {"Ok", "Timeout", "Failed"}
           /\ entry.outcome = "Ok" <=> ~AttemptFails(last)
           /\ entry.outcome = "Timeout" <=> AttemptFails(last) /\ timed_out(last)
           /\ entry.outcome = "Failed" <=>
                  /\ AttemptFails(last) /\ ~timed_out(last)
                  /\ last = svConfig.max_retries

\* a call timed out after its second attempt with retries left
C38_Witness ==
    /\ svConfig.max_retries = MaxMaxRetries
    /\ \E i \in 1..Len(svLast.log) :
          svLast.log[i].outcome = "Timeout" /\ svLast.log[i].retry_count = 1
====
